---- MODULE Spec2Model ----
(***************************************************************************)
(* Ledger of the expense tracker: the Movements sheet (Database.js), the   *)
(* ingestion pipeline, the classification / split step and the settlement  *)
(* matcher (ExpenseTracker.js).                                            *)
(*                                                                         *)
(* Amounts are integers (minor units).  A currency value is either the     *)
(* failed-conversion cell Failed or an exact fraction <<"num", n, d>>.     *)
(* An empty text cell is Empty, an empty numeric cell is Blank.            *)
(***************************************************************************)
EXTENDS Integers, Sequences, FiniteSets, TLC

VARIABLES
  ledger,   \* the data rows of the Movements sheet, in sheet order
  run,      \* the running job: idle, or the rows left in the analysis loop
  last      \* the last completed operation, its inputs and its outcome

vars == <<ledger, run, last>>

(***************************************************************************)
(* Bounds of the model.                                                    *)
(***************************************************************************)
MaxRows == 3

(***************************************************************************)
(* Cells.                                                                  *)
(***************************************************************************)
Empty == ""
Blank == 0 - 1000

COLUMNS ==
  {"timestamp", "direction", "type", "amount", "currency", "source_description",
   "user_description", "comment", "ai_comment", "category", "status",
   "settled_movement_id", "clp_value", "usd_value", "gbp_value",
   "original_amount", "id", "source", "source_id", "accounting_system_id"}

CURRENCIES == {"CLP", "USD", "GBP"}

MOVEMENT_TYPES ==
  [EXPENSE |-> "Expense", CASH |-> "Cash", DEBIT |-> "Debit",
   CREDIT |-> "Credit", DEBIT_REPAYMENT |-> "Debit Repayment"]

DIRECTIONS == [OUTFLOW |-> "Outflow", INFLOW |-> "Inflow", NEUTRAL |-> "Neutral"]

STATUS ==
  [SETTLED |-> "Settled",
   PENDING_DIRECT_SETTLEMENT |-> "Pending Settlement",
   PENDING_SPLITWISE_SETTLEMENT |-> "Awaiting Splitwise Upload",
   IN_SPLITWISE |-> "In Splitwise"]

SOURCES == [GMAIL |-> "gmail", MONZO |-> "monzo", SPLITWISE |-> "splitwise"]

\* ai_comment cells: empty, "Split into #n" or "Split from #n".
NoComment == <<"", 0>>
\* Cross-references that name no row.
SplitInto_Nowhere(n) == <<"Split into #", 0>>
SplitFrom_Nowhere(n) == <<"Split from #", 0>>

SplitInto(n) == <<"Split into #", n>>
SplitFrom(n) == <<"Split from #", n>>

(***************************************************************************)
(* Exact arithmetic on currency values.                                    *)
(***************************************************************************)
Abs(x) == IF x < 0 THEN 0 - x ELSE x

RECURSIVE GCD(_, _)
GCD(a, b) == IF b = 0 THEN a ELSE GCD(b, a % b)

\* n/d in lowest terms, d > 0.
Frac(n, d) == LET g == GCD(Abs(n), d) IN <<"num", n \div g, d \div g>>

\* '#NUM!': a conversion that failed, or a value that is not a finite number.
Failed == <<"err", 0, 1>>

\* JS arithmetic reads an empty cell as 0.
Num(x) == IF x = Blank THEN 0 ELSE x

\* Worth of one unit of each currency in CLP, the rates of the model.
Worth == [CLP |-> 1, USD |-> 1000, GBP |-> 1250]

\* CurrencyConversionService.isFailedConversion
isFailedConversion(value) == value[1] # "num"

\* CurrencyConversionService.getAllCurrencyValues: the amount in the three
\* reporting currencies; the value in the movement's own currency is the
\* amount itself, a conversion that fails leaves the failed-conversion cell.
getAllCurrencyValues(amount, currency, ok) ==
  [c \in CURRENCIES |->
     IF c = currency THEN Frac(amount, 1)
     ELSE IF ok THEN Frac(amount * Worth[currency], Worth[c])
     ELSE Failed]

\* One value scaled by partAmount / originalAmount.
ScaleValue(value, originalAmount, partAmount) ==
  IF isFailedConversion(value) \/ Num(originalAmount) = 0
  THEN Failed
  ELSE LET n == value[2] * Num(partAmount)
           d == value[3] * Num(originalAmount)
       IN IF d < 0 THEN Frac(0 - n, 0 - d) ELSE Frac(n, d)

\* CurrencyConversionService.splitCurrencyValues
splitCurrencyValues(originalAmount, partAmount, originalValues) ==
  [c \in CURRENCIES |-> ScaleValue(originalValues[c], originalAmount, partAmount)]

(***************************************************************************)
(* Database: reads.                                                        *)
(***************************************************************************)
Range(s) == {s[i] : i \in 1..Len(s)}

getAllMovements(l) == l

\* Array.prototype.findIndex on the id column, 1-based; 0 when absent.
findIndex(l, id) ==
  IF \E i \in 1..Len(l) : l[i].id = id
  THEN CHOOSE i \in 1..Len(l) :
         /\ l[i].id = id
         /\ \A j \in 1..(i - 1) : l[j].id # id
  ELSE 0

\* A scan that reads the source column where the source_id column is meant.
getExistingSourceIds_WrongColumn(l, source) ==
  {l[i].source : i \in {j \in 1..Len(l) : l[j].source = source}}

getExistingSourceIds(l, source) ==
  IF source # Empty
  THEN {l[i].source_id : i \in {j \in 1..Len(l) :
                                  l[j].source = source /\ l[j].source_id # Empty}}
  ELSE {l[i].source_id : i \in {j \in 1..Len(l) : l[j].source_id # Empty}}

getExistingGmailIds(l) == getExistingSourceIds(l, SOURCES.GMAIL)

\* Number.prototype.toString: the decimal digits of a natural number.
RECURSIVE toString(_)
toString(n) == IF n < 10 THEN <<n>> ELSE Append(toString(n \div 10), n % 10)

\* A reading that only counts the rows Splitwise itself was the source of.
getExistingAccountingSystemIds_SplitwiseRows(l) ==
  {toString(l[i].accounting_system_id) :
     i \in {j \in 1..Len(l) :
              /\ l[j].accounting_system_id # Blank
              /\ l[j].accounting_system_id # 0
              /\ l[j].source = SOURCES.SPLITWISE}}

\* Database.getExistingAccountingSystemIds: the cells that are neither empty
\* nor 0, each as a string.
getExistingAccountingSystemIds(l) ==
  {toString(l[i].accounting_system_id) :
     i \in {j \in 1..Len(l) :
              /\ l[j].accounting_system_id # Blank
              /\ l[j].accounting_system_id # 0}}

\* A loop that keeps the last id it read, not the greatest.
RECURSIVE MaxId_LastRead(_, _)
MaxId_LastRead(ids, maxId) ==
  IF ids = <<>> THEN maxId
  ELSE MaxId_LastRead(Tail(ids),
                      IF Head(ids) # Blank /\ Head(ids) # 0
                      THEN Head(ids) ELSE maxId)

RECURSIVE MaxId(_, _)
MaxId(ids, maxId) ==
  IF ids = <<>> THEN maxId
  ELSE MaxId(Tail(ids),
             IF Head(ids) # Blank /\ Head(ids) # 0 /\ Head(ids) > maxId
             THEN Head(ids) ELSE maxId)

\* An id taken from the number of rows.
getNextId_RowCount(l) == Len(l) + 1

getNextId(l) ==
  IF Len(l) = 0 THEN 1
  ELSE MaxId([i \in 1..Len(l) |-> l[i].id], 0) + 1

\* A scan whose range stops one row short of the last row.
idExists_ShortRange(l, id) ==
  IF Len(l) = 0 THEN FALSE
  ELSE \E i \in 1..(Len(l) - 1) : l[i].id = id

idExists(l, id) ==
  IF Len(l) = 0 THEN FALSE
  ELSE \E i \in 1..Len(l) : l[i].id = id

(***************************************************************************)
(* Database: inserts.                                                      *)
(***************************************************************************)
\* The outcome of addMovement: the ledger after the call, and whether the
\* call threw.
addMovement(l, movementRow) ==
  IF idExists(l, movementRow.id)
  THEN [ledger |-> l, threw |-> TRUE]
  ELSE [ledger |-> Append(l, movementRow), threw |-> FALSE]

\* A timestamp text that Date.parse cannot read, and the NaN it gives.
NotADate == 0 - 2000
NaN == 0 - 3000

\* Date.parse of a timestamp: the time of a date, NaN for any other text.
DateParse(ts) == IF ts = NotADate THEN NaN ELSE ts

\* a.ts ? Date.parse(a.ts) : 0, the sort key of a batch item: a missing
\* timestamp counts as 0.
SortKey(item) == IF item.ts = Blank THEN 0 ELSE DateParse(item.ts)

\* The comparator (a, b) => ta - tb as sort reads it: a NaN result counts
\* as +0.
compareTs(a, b) ==
  IF SortKey(a) = NaN \/ SortKey(b) = NaN THEN 0
  ELSE SortKey(a) - SortKey(b)

\* Array.prototype.sort with a consistent comparator: stable, ascending.
RECURSIVE InsertByTs(_, _)
InsertByTs(sorted, item) ==
  IF sorted = <<>> THEN <<item>>
  ELSE IF compareTs(Head(sorted), item) <= 0
  THEN <<Head(sorted)>> \o InsertByTs(Tail(sorted), item)
  ELSE <<item>> \o sorted

RECURSIVE SortByTs(_)
SortByTs(items) ==
  IF items = <<>> THEN <<>>
  ELSE InsertByTs(SortByTs(SubSeq(items, 1, Len(items) - 1)), items[Len(items)])

\* forEach(item => addMovement(item.row)): the first throw ends the batch.
RECURSIVE AddEach(_, _)
AddEach(l, items) ==
  IF items = <<>> THEN [ledger |-> l, threw |-> FALSE]
  ELSE LET r == addMovement(l, Head(items).row)
       IN IF r.threw THEN r ELSE AddEach(r.ledger, Tail(items))

\* Database.addMovementsBatch, for a batch on which the comparator is
\* consistent: the sort has one outcome.
addMovementsBatch(l, movements) == AddEach(l, SortByTs(movements))

\* Whether the comparator is a consistent comparator for the items of the
\* batch: equal, less and greater are each transitive.  With a NaN key that
\* compares as equal to two different times it is not.
ConsistentComparator(movements) ==
  \A i, j, k \in 1..Len(movements) :
    LET ab == compareTs(movements[i], movements[j])
        bc == compareTs(movements[j], movements[k])
        ac == compareTs(movements[i], movements[k])
    IN /\ (ab = 0 /\ bc = 0) => ac = 0
       /\ (ab < 0 /\ bc < 0) => ac < 0
       /\ (ab > 0 /\ bc > 0) => ac > 0

\* The orders in which a sequence can be rearranged.
Orders(items) ==
  {[i \in 1..Len(items) |-> items[f[i]]] :
     f \in {g \in [1..Len(items) -> 1..Len(items)] :
              \A i, j \in 1..Len(items) : g[i] = g[j] => i = j}}

\* The outcomes of movements.sort(...): with a comparator that is not
\* consistent the order is implementation-defined, any order of the items.
sortedMovements(movements) ==
  IF ConsistentComparator(movements)
  THEN {SortByTs(movements)}
  ELSE Orders(movements)

\* The outcomes of Database.addMovementsBatch for any batch.
addMovementsBatchOutcomes(l, movements) ==
  IF ConsistentComparator(movements)
  THEN {addMovementsBatch(l, movements)}
  ELSE {AddEach(l, sorted) : sorted \in sortedMovements(movements)}

(***************************************************************************)
(* Source providers and the parser of bank emails.                         *)
(***************************************************************************)
\* The transactions the Monzo account holds.
MonzoTransactions ==
  {[id |-> "tx1", amount |-> 100, currency |-> "GBP", settled |-> 3]}

\* The labelled bank emails, with the time the parser reports for each: m1
\* tells of money lent, m2 of a transfer received.
GmailMessages ==
  {[id |-> "m1", timestamp |-> 2], [id |-> "m2", timestamp |-> 4]}

\* What the model may answer for an email (parsedData): nothing usable, the
\* transaction of the email, or an amount with the wrong sign.
EmailReplies(id) ==
  {[amount |-> Blank, currency |-> "gbp", transaction_type |-> Empty],
   [amount |-> 100, currency |-> Empty, transaction_type |-> "debit"]}
  \cup
  (IF id = "m1"
   THEN {[amount |-> 100, currency |-> "gbp", transaction_type |-> "debit"]}
   ELSE {[amount |-> a, currency |-> "gbp", transaction_type |-> "debit repayment"] :
           a \in {30, 95}}
        \cup {[amount |-> 0 - 5, currency |-> "gbp", transaction_type |-> Empty]})

\* The lists a provider can return: every record at most once, in any order.
Fetches(records) ==
  {f \in UNION {[1..n -> records] : n \in 0..Cardinality(records)} :
     \A i, j \in 1..Len(f) : f[i] = f[j] => i = j}

toUpperCase(s) == IF s = "gbp" THEN "GBP" ELSE s

\* GoogleAIStudioService.mapTransactionTypeToMovementType
mapTransactionTypeToMovementType(transactionType) ==
  IF transactionType = Empty THEN MOVEMENT_TYPES.EXPENSE
  ELSE IF transactionType = "debit" THEN MOVEMENT_TYPES.DEBIT
  ELSE IF transactionType = "debit repayment" THEN MOVEMENT_TYPES.DEBIT_REPAYMENT
  ELSE MOVEMENT_TYPES.EXPENSE

\* The absent transaction (null).
NoTransaction == [gmailId |-> Empty]

\* GoogleAIStudioService.parseGoogleAIStudioResponse
parseGoogleAIStudioResponse(parsedData, message) ==
  IF parsedData.amount = Blank \/ parsedData.amount = 0 \/ parsedData.currency = Empty
  THEN NoTransaction
  ELSE [gmailId |-> message.id,
        timestamp |-> message.timestamp,
        amount |-> parsedData.amount,
        currency |-> toUpperCase(parsedData.currency),
        transactionType |->
          mapTransactionTypeToMovementType(parsedData.transaction_type)]

\* ExpenseTracker.getDirectionForTransactionType
getDirectionForTransactionType(transactionType) ==
  IF transactionType \in {MOVEMENT_TYPES.EXPENSE, MOVEMENT_TYPES.CASH, MOVEMENT_TYPES.DEBIT}
  THEN DIRECTIONS.OUTFLOW
  ELSE IF transactionType = MOVEMENT_TYPES.CREDIT THEN DIRECTIONS.INFLOW
  ELSE IF transactionType = MOVEMENT_TYPES.DEBIT_REPAYMENT THEN DIRECTIONS.NEUTRAL
  ELSE DIRECTIONS.OUTFLOW

\* ExpenseTracker.getStatusForTransactionType
getStatusForTransactionType(transactionType) ==
  IF transactionType \in {MOVEMENT_TYPES.DEBIT, MOVEMENT_TYPES.CREDIT}
  THEN STATUS.PENDING_DIRECT_SETTLEMENT
  ELSE Empty

\* ExpenseTracker.createMovementRow
createMovementRow(transaction, nextId, ok) ==
  LET currencyValues ==
        getAllCurrencyValues(transaction.amount, transaction.currency, ok)
  IN [timestamp |-> transaction.timestamp,
      direction |-> getDirectionForTransactionType(transaction.transactionType),
      type |-> transaction.transactionType,
      amount |-> transaction.amount,
      currency |-> transaction.currency,
      source_description |-> "AI Parsed Transaction",
      user_description |-> Empty,
      comment |-> Empty,
      ai_comment |-> NoComment,
      category |-> Empty,
      status |-> getStatusForTransactionType(transaction.transactionType),
      settled_movement_id |-> Blank,
      clp_value |-> currencyValues["CLP"],
      usd_value |-> currencyValues["USD"],
      gbp_value |-> currencyValues["GBP"],
      original_amount |-> Blank,
      id |-> nextId,
      source |-> SOURCES.GMAIL,
      source_id |-> transaction.gmailId,
      accounting_system_id |-> Blank]

\* ExpenseTracker.createMonzoMovementRow, with the movement of
\* MonzoService.convertTransactionToMovement: an uncategorised expense.
createMonzoMovementRow(transaction, nextId, ok) ==
  LET currencyValues ==
        getAllCurrencyValues(transaction.amount, transaction.currency, ok)
  IN [timestamp |-> transaction.settled,
      direction |-> DIRECTIONS.OUTFLOW,
      type |-> MOVEMENT_TYPES.EXPENSE,
      amount |-> transaction.amount,
      currency |-> transaction.currency,
      source_description |-> "Monzo",
      user_description |-> Empty,
      comment |-> Empty,
      ai_comment |-> NoComment,
      category |-> Empty,
      status |-> Empty,
      settled_movement_id |-> Blank,
      clp_value |-> currencyValues["CLP"],
      usd_value |-> currencyValues["USD"],
      gbp_value |-> currencyValues["GBP"],
      original_amount |-> Blank,
      id |-> nextId,
      source |-> SOURCES.MONZO,
      source_id |-> transaction.id,
      accounting_system_id |-> Blank]

(***************************************************************************)
(* The record of the last operation.                                       *)
(***************************************************************************)
NoOp ==
  [op |-> "none", id |-> Blank, split_type |-> Empty, split_amount |-> Blank,
   ret |-> Blank, assigned |-> <<>>, skipped |-> {}, matched |-> Blank,
   threw |-> FALSE, successCount |-> 0, failureCount |-> 0,
   attempted |-> <<>>, converted |-> {}, discarded |-> FALSE,
   stages |-> <<>>, over |-> FALSE, batch |-> <<>>, original |-> <<>>]

(***************************************************************************)
(* Ingestion.                                                              *)
(***************************************************************************)
\* ExpenseTracker.processMonzoTransactions: the ledger it leaves, the source
\* ids it skipped as already present, the ids it assigned in order.
processMonzoTransactions(l, connected, transactions, ok) ==
  LET existingMonzoIds == getExistingSourceIds(l, SOURCES.MONZO)
      newTransactions ==
        SelectSeq(transactions, LAMBDA t : t.id \notin existingMonzoIds)
      nextId == getNextId(l)
      batchMovements ==
        [i \in 1..Len(newTransactions) |->
           [ts |-> newTransactions[i].settled,
            row |-> createMonzoMovementRow(newTransactions[i], nextId + i - 1, ok),
            monzoId |-> newTransactions[i].id]]
      added == addMovementsBatch(l, batchMovements)
  IN IF ~connected \/ Len(transactions) = 0 \/ Len(newTransactions) = 0
     THEN [ledger |-> l, threw |-> FALSE, assigned |-> <<>>,
           skipped |-> IF connected
                       THEN {t.id : t \in {u \in Range(transactions) :
                                             u.id \in existingMonzoIds}}
                       ELSE {}]
     ELSE [ledger |-> added.ledger, threw |-> added.threw,
           assigned |-> [i \in 1..Len(batchMovements) |-> batchMovements[i].row.id],
           skipped |-> {t.id : t \in {u \in Range(transactions) :
                                        u.id \in existingMonzoIds}}]

\* GmailService.getUnprocessedMessages: the messages of the query whose id is
\* not among the existing Gmail ids.
getUnprocessedMessages(messages, existingGmailIds) ==
  SelectSeq(messages, LAMBDA m : m.id \notin existingGmailIds)

\* ExpenseTracker.processBankEmails; reply[m.id] is the model's answer for m.
processBankEmails(l, messages, reply, ok) ==
  LET existingGmailIds == getExistingGmailIds(l)
      unprocessedMessages == getUnprocessedMessages(messages, existingGmailIds)
      nextId == getNextId(l)
      transactions ==
        SelectSeq([i \in 1..Len(unprocessedMessages) |->
                     parseGoogleAIStudioResponse(reply[unprocessedMessages[i].id],
                                                 unprocessedMessages[i])],
                  LAMBDA t : t # NoTransaction)
      batchMovements ==
        [i \in 1..Len(transactions) |->
           [ts |-> transactions[i].timestamp,
            row |-> createMovementRow(transactions[i], nextId + i - 1, ok),
            gmailId |-> transactions[i].gmailId]]
      added == addMovementsBatch(l, batchMovements)
  IN IF Len(unprocessedMessages) = 0 \/ Len(batchMovements) = 0
     THEN [ledger |-> l, threw |-> FALSE, assigned |-> <<>>]
     ELSE [ledger |-> added.ledger, threw |-> added.threw,
           assigned |-> [i \in 1..Len(batchMovements) |-> batchMovements[i].row.id]]

Idle == run = <<>>

\* The lists MonzoService.getRecentTransactions can return.
MonzoFetches == Fetches(MonzoTransactions)

\* The lists the Gmail query can return.
GmailFetches == Fetches(GmailMessages)

\* The answers of the parser model, one for each email.
EmailReplyChoices ==
  {f \in [{m.id : m \in GmailMessages} ->
            UNION {EmailReplies(m.id) : m \in GmailMessages}] :
     \A m \in GmailMessages : f[m.id] \in EmailReplies(m.id)}

ProcessMonzoTransactions ==
  /\ Idle
  /\ \E connected \in BOOLEAN, transactions \in MonzoFetches, ok \in BOOLEAN :
       LET r == processMonzoTransactions(ledger, connected, transactions, ok)
       IN /\ Len(r.ledger) <= MaxRows
          /\ r.ledger # ledger \/ r.skipped # {} \/ r.threw
          /\ ledger' = r.ledger
          /\ last' = [NoOp EXCEPT !.op = "processMonzoTransactions",
                                  !.assigned = r.assigned,
                                  !.skipped = r.skipped, !.threw = r.threw]
  /\ UNCHANGED run

\* An email that is not parsed in the run gets no answer: the choice for it
\* is fixed.
ProcessBankEmails ==
  /\ Idle
  /\ \E messages \in GmailFetches :
       LET parsed == {m.id : m \in Range(getUnprocessedMessages(
                                         messages, getExistingGmailIds(ledger)))}
       IN /\ parsed # {}
          /\ \E reply \in {f \in EmailReplyChoices :
                             \A m \in GmailMessages :
                               m.id \notin parsed =>
                                 f[m.id] = CHOOSE x \in EmailReplies(m.id) : TRUE} :
               LET r == processBankEmails(ledger, messages, reply, TRUE)
               IN /\ Len(r.ledger) <= MaxRows
                  /\ r.ledger # ledger \/ r.threw
                  /\ ledger' = r.ledger
                  /\ last' = [NoOp EXCEPT !.op = "processBankEmails",
                                          !.assigned = r.assigned,
                                          !.threw = r.threw]
  /\ UNCHANGED run

\* The source records whose movements the user describes in the sheet.
Described == {"tx1", "m2"}

\* The user fills in the description of a movement in the sheet.
UserDescribes ==
  /\ Idle
  /\ \E i \in 1..Len(ledger) :
       /\ ledger[i].user_description = Empty
       /\ ledger[i].source_id \in Described
       /\ ledger' = [ledger EXCEPT ![i].user_description = "dinner"]
  /\ last' = [NoOp EXCEPT !.op = "userDescribes"]
  /\ UNCHANGED run


(***************************************************************************)
(* Database: field-level updates and splits.                               *)
(***************************************************************************)
\* A read that lists every movement to analyse twice.
getMovementsNeedingCategoryAnalysis_Twice(l) ==
  LET needing == SelectSeq(getAllMovements(l),
                           LAMBDA movement :
                             movement.user_description # Empty
                               /\ movement.category = Empty)
  IN needing \o needing

getMovementsNeedingCategoryAnalysis(l) ==
  SelectSeq(getAllMovements(l),
            LAMBDA movement :
              movement.user_description # Empty /\ movement.category = Empty)

\* A filter that offers every movement to the matcher.
getMovementsPendingDirectSettlement_All(l) == getAllMovements(l)

getMovementsPendingDirectSettlement(l) ==
  SelectSeq(getAllMovements(l),
            LAMBDA movement :
              /\ movement.type = MOVEMENT_TYPES.DEBIT
              /\ movement.status = STATUS.PENDING_DIRECT_SETTLEMENT)

updateMovementWithAnalysis(l, movementId, analysisResult) ==
  LET movementRowIndex == findIndex(l, movementId)
  IN IF movementRowIndex = 0 THEN l
     ELSE IF ~analysisResult.needs_split /\ analysisResult.clean_description # Empty
     THEN [l EXCEPT ![movementRowIndex].category = analysisResult.category,
                    ![movementRowIndex].user_description =
                        analysisResult.clean_description,
                    ![movementRowIndex].comment = Empty]
     ELSE [l EXCEPT ![movementRowIndex].category = analysisResult.category]

\* A reference written with an id beyond every row of the ledger.
updateMovementSettledId_Beyond(l, movementId, settledMovementId) ==
  LET movementRowIndex == findIndex(l, movementId)
  IN IF movementRowIndex = 0 THEN l
     ELSE [l EXCEPT ![movementRowIndex].settled_movement_id =
                       settledMovementId + MaxRows]

updateMovementSettledId(l, movementId, settledMovementId) ==
  LET movementRowIndex == findIndex(l, movementId)
  IN IF movementRowIndex = 0 THEN l
     ELSE [l EXCEPT ![movementRowIndex].settled_movement_id = settledMovementId]

\* A status update that removes the row it was to update.
updateMovementStatus_Deleting(l, movementId, status) ==
  SelectSeq(l, LAMBDA movement : movement.id # movementId)

\* A status update that also writes a back reference on the row.
updateMovementStatus_TwoWay(l, movementId, status) ==
  LET movementRowIndex == findIndex(l, movementId)
  IN IF movementRowIndex = 0 THEN l
     ELSE [l EXCEPT ![movementRowIndex].status = status,
                    ![movementRowIndex].settled_movement_id = movementId]

updateMovementStatus(l, movementId, status) ==
  LET movementRowIndex == findIndex(l, movementId)
  IN IF movementRowIndex = 0 THEN l
     ELSE [l EXCEPT ![movementRowIndex].status = status]

\* A refused split that returns the id 1 as if a row had been created.
NoSplit_Created(l) == [ledger |-> l, ret |-> 1, threw |-> FALSE, matched |-> Blank]

\* The outcome of a split that found no row or refused the amount.
NoSplit(l) == [ledger |-> l, ret |-> Blank, threw |-> FALSE, matched |-> Blank]

\* A remainder that was not reduced by the split amount.
remainingAmount_Unreduced(originalAmount, splitAmount) == Num(originalAmount)

\* remainingAmount = originalAmount - splitAmount, of both splits.
remainingAmount(originalAmount, splitAmount) ==
  Num(originalAmount) - Num(splitAmount)

\* Stored values read with the CLP and the USD column exchanged.
originalCurrencyValues_Exchanged(originalMovement) ==
  [c \in CURRENCIES |->
     IF c = "CLP" THEN originalMovement.usd_value
     ELSE IF c = "USD" THEN originalMovement.clp_value
     ELSE originalMovement.gbp_value]

\* originalCurrencyValues, of both splits: the three values stored in the row.
originalCurrencyValues(originalMovement) ==
  [c \in CURRENCIES |->
     IF c = "CLP" THEN originalMovement.clp_value
     ELSE IF c = "USD" THEN originalMovement.usd_value
     ELSE originalMovement.gbp_value]

\* A validation that lets a split amount equal to the original amount pass.
invalidSplitAmount_Strict(splitAmount, originalAmount) ==
  Num(splitAmount) > Num(originalAmount) \/ Num(splitAmount) <= 0

\* The validation of splitExpenseForRecategorization.
invalidSplitAmount(splitAmount, originalAmount) ==
  Num(splitAmount) >= Num(originalAmount) \/ Num(splitAmount) <= 0

\* Database.splitMovement: the original row becomes the personal portion, a
\* new Debit row holds the rest.  The cells of the original row are written
\* before the insert, so they stay written when the insert throws.
splitMovement(l, originalMovementId, splitInfo) ==
  LET originalMovementIndex == findIndex(l, originalMovementId)
      originalMovement == l[originalMovementIndex]
      nextId == getNextId(l)
      remaining == remainingAmount(originalMovement.amount, splitInfo.split_amount)
      currencyValues == originalCurrencyValues(originalMovement)
      personalCurrencyValues ==
        splitCurrencyValues(originalMovement.amount, splitInfo.split_amount,
                            currencyValues)
      sharedCurrencyValues ==
        splitCurrencyValues(originalMovement.amount, remaining, currencyValues)
      written ==
        [l EXCEPT ![originalMovementIndex] =
           [originalMovement EXCEPT
              !.amount = splitInfo.split_amount,
              !.category = splitInfo.split_category,
              !.user_description = splitInfo.clean_description,
              !.comment = Empty,
              !.ai_comment = SplitInto(nextId),
              !.original_amount = originalMovement.amount,
              !.clp_value = personalCurrencyValues["CLP"],
              !.usd_value = personalCurrencyValues["USD"],
              !.gbp_value = personalCurrencyValues["GBP"]]]
      sharedMovement ==
        [originalMovement EXCEPT
           !.id = nextId,
           !.amount = remaining,
           !.category = splitInfo.split_category,
           !.user_description = splitInfo.split_description,
           !.direction = DIRECTIONS.NEUTRAL,
           !.type = MOVEMENT_TYPES.DEBIT,
           !.status = STATUS.PENDING_DIRECT_SETTLEMENT,
           !.comment = Empty,
           !.ai_comment = SplitFrom(originalMovementId),
           !.original_amount = originalMovement.amount,
           !.clp_value = sharedCurrencyValues["CLP"],
           !.usd_value = sharedCurrencyValues["USD"],
           !.gbp_value = sharedCurrencyValues["GBP"]]
      added == addMovement(written, sharedMovement)
  IN IF originalMovementIndex = 0 THEN NoSplit(l)
     ELSE [ledger |-> added.ledger,
           ret |-> IF added.threw THEN Blank ELSE nextId,
           threw |-> added.threw,
           matched |-> Blank]

\* Database.splitExpenseForRecategorization: the original row keeps the
\* rest, a new uncategorised row holds the split amount.
splitExpenseForRecategorization(l, originalMovementId, splitInfo) ==
  LET originalMovementIndex == findIndex(l, originalMovementId)
      originalMovement == l[originalMovementIndex]
      nextId == getNextId(l)
      originalAmount == originalMovement.amount
      splitAmount == splitInfo.split_amount
      remaining == remainingAmount(originalAmount, splitAmount)
      currencyValues == originalCurrencyValues(originalMovement)
      remainingCurrencyValues ==
        splitCurrencyValues(originalAmount, remaining, currencyValues)
      splitValues ==
        splitCurrencyValues(originalAmount, splitAmount, currencyValues)
      written ==
        [l EXCEPT ![originalMovementIndex] =
           [originalMovement EXCEPT
              !.amount = remaining,
              !.user_description =
                 IF splitInfo.clean_description # Empty
                 THEN splitInfo.clean_description
                 ELSE originalMovement.user_description,
              !.category = Empty,
              !.comment = Empty,
              !.ai_comment = SplitInto(nextId),
              !.original_amount = originalAmount,
              !.clp_value = remainingCurrencyValues["CLP"],
              !.usd_value = remainingCurrencyValues["USD"],
              !.gbp_value = remainingCurrencyValues["GBP"]]]
      newMovement ==
        [originalMovement EXCEPT
           !.id = nextId,
           !.amount = splitAmount,
           !.user_description = splitInfo.split_description,
           !.category = Empty,
           !.comment = Empty,
           !.ai_comment = SplitFrom(originalMovementId),
           !.original_amount = originalAmount,
           !.clp_value = splitValues["CLP"],
           !.usd_value = splitValues["USD"],
           !.gbp_value = splitValues["GBP"]]
      added == addMovement(written, newMovement)
  IN IF originalMovementIndex = 0 THEN NoSplit(l)
     ELSE IF invalidSplitAmount(splitAmount, originalAmount)
     THEN NoSplit(l)
     ELSE [ledger |-> added.ledger,
           ret |-> IF added.threw THEN Blank ELSE nextId,
           threw |-> added.threw,
           matched |-> Blank]

(***************************************************************************)
(* The classifier boundary.                                                *)
(***************************************************************************)
\* CategoryService.getCategoryNames: the category vocabulary.
validCategories == {"restaurants", "household"}

\* Every answer the classifier can give (parsedData), the split fields in
\* any combination with the rest.
ClassifierAnswers ==
  [category : {"restaurants", "bogus", Empty},
   needs_split : BOOLEAN,
   split_type : {"DEBIT", "EXPENSE", "OTHER", Empty},
   split_amount : {Blank, 0, 60},
   split_description : {"their part"},
   split_category : {"restaurants", "bogus", Empty},
   clean_description : {"dinner", Empty}]

\* What the classifier may answer for a movement (parsedData).  The split
\* fields of an answer that asks for no split are never read.
AnalysisReplies ==
  {p \in [category : {"restaurants", "bogus", Empty},
          needs_split : BOOLEAN,
          split_type : {"DEBIT", "EXPENSE", "OTHER", Empty},
          split_amount : {Blank, 0, 60},
          split_description : {"their part"},
          split_category : {"restaurants", "bogus"},
          clean_description : {"dinner"}] :
     /\ ~p.needs_split =>
          /\ p.split_type = Empty
          /\ p.split_amount = Blank
          /\ p.split_category = "restaurants"
     /\ p.needs_split => p.category # "bogus"}

\* The absent analysis result (null).
NoAnalysis == [category |-> "null"]

\* A parser that does not compare the category with the vocabulary.
parseCategoryAnalysisResponse_AnyCategory(parsedData) ==
  LET isExpenseSplit == parsedData.needs_split /\ parsedData.split_type = "EXPENSE"
  IN IF ~isExpenseSplit /\ parsedData.category = Empty THEN NoAnalysis
     ELSE IF /\ parsedData.needs_split
             /\ \/ parsedData.split_amount = Blank
                \/ parsedData.split_type = Empty
     THEN NoAnalysis
     ELSE IF /\ parsedData.needs_split
             /\ parsedData.split_type = "DEBIT"
             /\ \/ parsedData.split_category = Empty
                \/ parsedData.split_category \notin validCategories
     THEN NoAnalysis
     ELSE [category |-> parsedData.category,
           needs_split |-> parsedData.needs_split,
           split_type |-> parsedData.split_type,
           split_amount |->
             IF parsedData.split_amount = 0 THEN Blank ELSE parsedData.split_amount,
           split_description |-> parsedData.split_description,
           split_category |-> parsedData.split_category,
           clean_description |->
             IF parsedData.clean_description # Empty
             THEN parsedData.clean_description
             ELSE parsedData.category]

\* GoogleAIStudioService.parseCategoryAnalysisResponse
parseCategoryAnalysisResponse(parsedData) ==
  LET isExpenseSplit == parsedData.needs_split /\ parsedData.split_type = "EXPENSE"
  IN IF ~isExpenseSplit /\ parsedData.category = Empty THEN NoAnalysis
     ELSE IF parsedData.category # Empty /\ parsedData.category \notin validCategories
     THEN NoAnalysis
     ELSE IF /\ parsedData.needs_split
             /\ \/ parsedData.split_amount = Blank
                \/ parsedData.split_type = Empty
     THEN NoAnalysis
     ELSE IF /\ parsedData.needs_split
             /\ parsedData.split_type = "DEBIT"
             /\ \/ parsedData.split_category = Empty
                \/ parsedData.split_category \notin validCategories
     THEN NoAnalysis
     ELSE [category |-> parsedData.category,
           needs_split |-> parsedData.needs_split,
           split_type |-> parsedData.split_type,
           split_amount |->
             IF parsedData.split_amount = 0 THEN Blank ELSE parsedData.split_amount,
           split_description |-> parsedData.split_description,
           split_category |-> parsedData.split_category,
           clean_description |->
             IF parsedData.clean_description # Empty
             THEN parsedData.clean_description
             ELSE parsedData.category]

\* GoogleAIStudioService.analyzeCategory: what the analysis of a movement
\* may return, the parsed answer or null.
AnalysisResults ==
  {parseCategoryAnalysisResponse(parsedData) : parsedData \in AnalysisReplies}

(***************************************************************************)
(* Settlement.                                                             *)
(***************************************************************************)
SETTLED_PERCENTAGE == 95
PARTIAL_PERCENTAGE == 50

\* A comparison that asks for more than the percentage.
PercentageAtLeast_Above(repaymentAmount, debitAmount, percentage) ==
  LET r == Num(repaymentAmount)
      d == Num(debitAmount)
  IN IF d > 0 THEN r * 100 > percentage * d
     ELSE IF d < 0 THEN r * 100 < percentage * d
     ELSE r > 0

\* (repaymentAmount / debitAmount) * 100 >= percentage, as JS evaluates it:
\* a division by zero gives Infinity, -Infinity or NaN.
PercentageAtLeast(repaymentAmount, debitAmount, percentage) ==
  LET r == Num(repaymentAmount)
      d == Num(debitAmount)
  IN IF d > 0 THEN r * 100 >= percentage * d
     ELSE IF d < 0 THEN r * 100 <= percentage * d
     ELSE r > 0

\* A settlement that records the reference only when the debit is settled.
processDebitRepaymentSettlement_OnlySettled(l, repaymentMovementId, repaymentMovement, matchedDebitId) ==
  LET pendingDebits == getMovementsPendingDirectSettlement(l)
      found == SelectSeq(pendingDebits, LAMBDA debit : debit.id = matchedDebitId)
      matchedDebit == Head(found)
      recorded == updateMovementSettledId(l, repaymentMovementId, matchedDebitId)
  IN IF Len(pendingDebits) = 0 THEN [ledger |-> l, matched |-> Blank]
     ELSE IF matchedDebitId = Blank \/ matchedDebitId = 0
     THEN [ledger |-> l, matched |-> Blank]
     ELSE IF Len(found) = 0 THEN [ledger |-> l, matched |-> Blank]
     ELSE IF PercentageAtLeast(repaymentMovement.amount, matchedDebit.amount,
                               SETTLED_PERCENTAGE)
     THEN [ledger |-> updateMovementStatus(recorded, matchedDebitId, STATUS.SETTLED),
           matched |-> matchedDebitId]
     ELSE [ledger |-> l, matched |-> matchedDebitId]

\* ExpenseTracker.processDebitRepaymentSettlement; matchedDebitId is the id
\* the matcher answers, Blank for none.
processDebitRepaymentSettlement(l, repaymentMovementId, repaymentMovement, matchedDebitId) ==
  LET pendingDebits == getMovementsPendingDirectSettlement(l)
      found == SelectSeq(pendingDebits, LAMBDA debit : debit.id = matchedDebitId)
      matchedDebit == Head(found)
      recorded == updateMovementSettledId(l, repaymentMovementId, matchedDebitId)
  IN IF Len(pendingDebits) = 0 THEN [ledger |-> l, matched |-> Blank]
     ELSE IF matchedDebitId = Blank \/ matchedDebitId = 0
     THEN [ledger |-> l, matched |-> Blank]
     ELSE IF Len(found) = 0 THEN [ledger |-> l, matched |-> Blank]
     ELSE IF PercentageAtLeast(repaymentMovement.amount, matchedDebit.amount,
                               SETTLED_PERCENTAGE)
     THEN [ledger |-> updateMovementStatus(recorded, matchedDebitId, STATUS.SETTLED),
           matched |-> matchedDebitId]
     ELSE [ledger |-> recorded, matched |-> matchedDebitId]

(***************************************************************************)
(* The classification run.                                                 *)
(***************************************************************************)
\* One pass of the loop of processUncategorizedMovements over `movement`, a
\* row as it was read at the start of the run.
analyzeMovement(l, movement, analysisResult, matchedDebitId) ==
  LET movementId == movement.id
      recat == splitExpenseForRecategorization(
                 l, movementId,
                 [split_amount |-> analysisResult.split_amount,
                  split_description |-> analysisResult.split_description,
                  clean_description |-> analysisResult.clean_description])
      updated == updateMovementWithAnalysis(l, movementId, analysisResult)
      debit == splitMovement(
                 updated, movementId,
                 [split_amount |-> analysisResult.split_amount,
                  split_category |-> analysisResult.split_category,
                  split_description |-> analysisResult.split_description,
                  clean_description |-> analysisResult.clean_description])
      split ==
        IF analysisResult.needs_split /\ analysisResult.split_type = "EXPENSE"
        THEN recat
        ELSE IF analysisResult.needs_split THEN debit
        ELSE NoSplit(updated)
      settled == processDebitRepaymentSettlement(
                   split.ledger, movementId, movement, matchedDebitId)
  IN IF analysisResult = NoAnalysis
     THEN NoSplit(l)
     ELSE IF split.threw
     THEN split
     ELSE IF movement.type = MOVEMENT_TYPES.DEBIT_REPAYMENT
     THEN [split EXCEPT !.ledger = settled.ledger, !.matched = settled.matched]
     ELSE split

\* The ids the matcher may answer.
MatchReplies == {Blank} \cup (1..MaxRows)

StartAnalysis ==
  /\ Idle
  /\ getMovementsNeedingCategoryAnalysis(ledger) # <<>>
  /\ run' = getMovementsNeedingCategoryAnalysis(ledger)
  /\ last' = [NoOp EXCEPT !.op = "processUncategorizedMovements"]
  /\ UNCHANGED ledger

AnalyzeMovement ==
  /\ ~Idle
  /\ \E analysisResult \in AnalysisResults, matchedDebitId \in MatchReplies :
       LET movement == Head(run)
           r == analyzeMovement(ledger, movement, analysisResult, matchedDebitId)
       IN /\ movement.type # MOVEMENT_TYPES.DEBIT_REPAYMENT => matchedDebitId = Blank
          /\ Len(r.ledger) <= MaxRows
          /\ ledger' = r.ledger
          /\ last' = [NoOp EXCEPT
                        !.op = "analyzeMovement",
                        !.id = movement.id,
                        !.split_type =
                           IF analysisResult = NoAnalysis \/ ~analysisResult.needs_split
                           THEN Empty ELSE analysisResult.split_type,
                        !.split_amount =
                           IF analysisResult = NoAnalysis \/ ~analysisResult.needs_split
                           THEN Blank ELSE analysisResult.split_amount,
                        !.ret = r.ret,
                        !.matched = r.matched,
                        !.threw = r.threw,
                        !.discarded = (analysisResult = NoAnalysis)]
  /\ run' = Tail(run)

Init ==
  /\ ledger = <<>>
  /\ run = <<>>
  /\ last = NoOp

Next ==
  \/ ProcessMonzoTransactions
  \/ ProcessBankEmails
  \/ UserDescribes
  \/ StartAnalysis
  \/ AnalyzeMovement

Spec == Init /\ [][Next]_vars

\* The loop of a classification run goes on to its next pass: each pass
\* ends, by the return or the throw of its calls, and nothing else waits.
SpecAnalysisFair == Spec /\ WF_vars(AnalyzeMovement)

\* A movement entered by hand, inserted with an id the caller chose.
ManualRow(id) ==
  [createMonzoMovementRow([id |-> Empty, amount |-> 20, currency |-> "CLP",
                           settled |-> 1], id, TRUE)
     EXCEPT !.type = MOVEMENT_TYPES.CASH,
            !.source_description = "manual",
            !.source = Empty]

\* A direct call of Database.addMovement.
AddMovementCall ==
  /\ Idle
  /\ \E id \in 1..MaxRows :
       LET r == addMovement(ledger, ManualRow(id))
       IN /\ Len(r.ledger) <= MaxRows
          /\ ledger' = r.ledger
          /\ last' = [NoOp EXCEPT !.op = "addMovement", !.id = id,
                                  !.threw = r.threw]
  /\ UNCHANGED run

\* The runs of the program, and direct inserts between them.
NextInsert ==
  \/ Next
  \/ AddMovementCall

SpecInsert == Init /\ [][NextInsert]_vars

\* Sequential ingestion runs alone.
NextIngestion ==
  \/ ProcessMonzoTransactions
  \/ ProcessBankEmails

SpecIngestion == Init /\ [][NextIngestion]_vars

(***************************************************************************)
(* The push to Splitwise.                                                  *)
(***************************************************************************)
\* A filter that lets every movement pass.
getMovementsPendingSplitwiseSettlement_All(l) == getAllMovements(l)

\* Database.getMovementsPendingSplitwiseSettlement
getMovementsPendingSplitwiseSettlement(l) ==
  SelectSeq(getAllMovements(l),
            LAMBDA movement :
              movement.status = STATUS.PENDING_SPLITWISE_SETTLEMENT)

\* An update of the category that does not look at the index it found.
updateMovementCategory_Unchecked(l, movementId, category) ==
  LET movementRowIndex == findIndex(l, movementId)
  IN IF l = <<>> THEN l
     ELSE IF movementRowIndex = 0 THEN [l EXCEPT ![1].category = category]
     ELSE [l EXCEPT ![movementRowIndex].category = category]

\* Database.updateMovementCategory
updateMovementCategory(l, movementId, category) ==
  LET movementRowIndex == findIndex(l, movementId)
  IN IF movementRowIndex = 0 THEN l
     ELSE [l EXCEPT ![movementRowIndex].category = category]

\* An update that writes the Splitwise id and leaves the status as it was.
updateMovementWithSplitwiseInfo_IdOnly(l, movementId, splitwiseId) ==
  LET movementRowIndex == findIndex(l, movementId)
  IN IF movementRowIndex = 0 THEN l
     ELSE [l EXCEPT ![movementRowIndex].accounting_system_id = splitwiseId]

\* Database.updateMovementWithSplitwiseInfo
updateMovementWithSplitwiseInfo(l, movementId, splitwiseId) ==
  LET movementRowIndex == findIndex(l, movementId)
  IN IF movementRowIndex = 0 THEN l
     ELSE [l EXCEPT ![movementRowIndex].accounting_system_id = splitwiseId,
                    ![movementRowIndex].status = STATUS.IN_SPLITWISE]

\* SplitwiseService.createExpense: the id of the expense Splitwise created
\* for the movement, nothing when the creation failed.
createExpense(movementId, created) ==
  IF movementId \in created THEN 7000 + movementId ELSE Blank

\* The loop of pushToSplitwise over the movements read at its start.
RECURSIVE PushEach(_, _, _)
PushEach(l, pendingMovements, created) ==
  IF pendingMovements = <<>> THEN l
  ELSE LET movementId == Head(pendingMovements).id
           splitwiseId == createExpense(movementId, created)
       IN PushEach(IF splitwiseId # Blank
                   THEN updateMovementWithSplitwiseInfo(l, movementId, splitwiseId)
                   ELSE l,
                   Tail(pendingMovements), created)

\* ExpenseTracker.pushToSplitwise
pushToSplitwise(l, connected, created) ==
  IF ~connected THEN l
  ELSE PushEach(l, getMovementsPendingSplitwiseSettlement(l), created)

\* The user marks a movement of the card that is neither settled nor in
\* Splitwise as awaiting its upload to Splitwise.
UserAwaitsSplitwise ==
  /\ Idle
  /\ \E i \in 1..Len(ledger) :
       /\ ledger[i].source = SOURCES.MONZO
       /\ ledger[i].status \notin {STATUS.SETTLED, STATUS.IN_SPLITWISE,
                                   STATUS.PENDING_SPLITWISE_SETTLEMENT}
       /\ ledger' = [ledger EXCEPT
                       ![i].status = STATUS.PENDING_SPLITWISE_SETTLEMENT]
  /\ last' = [NoOp EXCEPT !.op = "userAwaitsSplitwise"]
  /\ UNCHANGED run

PushToSplitwise ==
  /\ Idle
  /\ \E created \in SUBSET {movement.id : movement \in Range(getMovementsPendingSplitwiseSettlement(ledger))} :
       /\ created # {}
       /\ ledger' = pushToSplitwise(ledger, TRUE, created)
  /\ last' = [NoOp EXCEPT !.op = "pushToSplitwise"]
  /\ UNCHANGED run

(***************************************************************************)
(* The ingestion from Splitwise.                                           *)
(***************************************************************************)
\* The expenses other people paid for the user (getCreditMovements).
SplitwiseCredits ==
  {[splitwiseId |-> 8001, date |-> 1, amount |-> 40, currency |-> "GBP",
    description |-> "taxi", paidBy |-> TRUE],
   [splitwiseId |-> 8002, date |-> 2, amount |-> 10, currency |-> "USD",
    description |-> "coffee", paidBy |-> TRUE]}

\* The expenses the user paid for others (getDebitMovements): the expenses
\* pushToSplitwise has created, which Splitwise returns under the id it
\* gave them.
SplitwiseDebits(l) ==
  {[splitwiseId |-> l[i].accounting_system_id, date |-> l[i].timestamp,
    amount |-> Num(l[i].amount), currency |-> l[i].currency,
    description |-> "Monzo", paidBy |-> FALSE] :
     i \in {j \in 1..Len(l) : l[j].status = STATUS.IN_SPLITWISE}}

\* The lists the two Splitwise queries can return, joined.
SplitwiseFetches(l) == Fetches(SplitwiseCredits \cup SplitwiseDebits(l))

\* ExpenseTracker.createSplitwiseMovementRow.  The records of the provider
\* carry no category: the cell is written empty.
createSplitwiseMovementRow(splitwiseMovement, nextId, ok) ==
  LET isCreditMovement == splitwiseMovement.paidBy
      currencyValues ==
        getAllCurrencyValues(splitwiseMovement.amount, splitwiseMovement.currency, ok)
  IN [timestamp |-> splitwiseMovement.date,
      direction |-> IF isCreditMovement THEN DIRECTIONS.OUTFLOW
                    ELSE DIRECTIONS.NEUTRAL,
      type |-> IF isCreditMovement THEN MOVEMENT_TYPES.CREDIT
               ELSE MOVEMENT_TYPES.DEBIT_REPAYMENT,
      amount |-> splitwiseMovement.amount,
      currency |-> splitwiseMovement.currency,
      source_description |-> splitwiseMovement.description,
      user_description |-> Empty,
      comment |-> Empty,
      ai_comment |-> NoComment,
      category |-> Empty,
      status |-> Empty,
      settled_movement_id |-> Blank,
      clp_value |-> currencyValues["CLP"],
      usd_value |-> currencyValues["USD"],
      gbp_value |-> currencyValues["GBP"],
      original_amount |-> Blank,
      id |-> nextId,
      source |-> SOURCES.SPLITWISE,
      source_id |-> Empty,
      accounting_system_id |-> splitwiseMovement.splitwiseId]

\* ExpenseTracker.processSplitwiseMovements
processSplitwiseMovements(l, connectionTest, allMovements, ok) ==
  LET existingAccountingSystemIds == getExistingAccountingSystemIds(l)
      exists(movement) ==
        toString(movement.splitwiseId) \in existingAccountingSystemIds
      newMovements == SelectSeq(allMovements, LAMBDA movement : ~exists(movement))
      nextId == getNextId(l)
      batchMovements ==
        [i \in 1..Len(newMovements) |->
           [ts |-> newMovements[i].date,
            row |-> createSplitwiseMovementRow(newMovements[i], nextId + i - 1, ok),
            accountingSystemId |-> newMovements[i].splitwiseId]]
      added == addMovementsBatch(l, batchMovements)
      skipped == {movement.splitwiseId :
                    movement \in {u \in Range(allMovements) : exists(u)}}
  IN IF ~connectionTest
     THEN [ledger |-> l, threw |-> FALSE, assigned |-> <<>>, skipped |-> {}]
     ELSE IF Len(allMovements) = 0 \/ Len(newMovements) = 0
     THEN [ledger |-> l, threw |-> FALSE, assigned |-> <<>>, skipped |-> skipped]
     ELSE [ledger |-> added.ledger, threw |-> added.threw,
           assigned |-> [i \in 1..Len(batchMovements) |-> batchMovements[i].row.id],
           skipped |-> skipped]

ProcessSplitwiseMovements ==
  /\ Idle
  /\ \E connectionTest \in BOOLEAN, allMovements \in SplitwiseFetches(ledger),
        ok \in BOOLEAN :
       LET r == processSplitwiseMovements(ledger, connectionTest, allMovements, ok)
       IN /\ Len(r.ledger) <= MaxRows
          /\ r.ledger # ledger \/ r.skipped # {} \/ r.threw
          /\ ledger' = r.ledger
          /\ last' = [NoOp EXCEPT !.op = "processSplitwiseMovements",
                                  !.assigned = r.assigned,
                                  !.skipped = r.skipped, !.threw = r.threw]
  /\ UNCHANGED run

\* The card, the upload to Splitwise and the ingestion from Splitwise.
NextSplitwise ==
  \/ ProcessMonzoTransactions
  \/ UserAwaitsSplitwise
  \/ PushToSplitwise
  \/ ProcessSplitwiseMovements

SpecSplitwise == Init /\ [][NextSplitwise]_vars

(***************************************************************************)
(* Ingestion runs whose source delivers a record more than once in the     *)
(* list of one fetch.                                                      *)
(***************************************************************************)
MaxFetch == 2

\* The lists a provider can return when it may repeat a record.
Redeliveries(records) == UNION {[1..n -> records] : n \in 1..MaxFetch}

ProcessMonzoTransactionsRedelivered ==
  /\ Idle
  /\ \E transactions \in Redeliveries(MonzoTransactions), ok \in BOOLEAN :
       LET r == processMonzoTransactions(ledger, TRUE, transactions, ok)
       IN /\ Len(r.ledger) <= MaxRows
          /\ r.ledger # ledger \/ r.skipped # {} \/ r.threw
          /\ ledger' = r.ledger
          /\ last' = [NoOp EXCEPT !.op = "processMonzoTransactions",
                                  !.assigned = r.assigned,
                                  !.skipped = r.skipped, !.threw = r.threw]
  /\ UNCHANGED run

ProcessSplitwiseMovementsRedelivered ==
  /\ Idle
  /\ \E allMovements \in Redeliveries(SplitwiseCredits), ok \in BOOLEAN :
       LET r == processSplitwiseMovements(ledger, TRUE, allMovements, ok)
       IN /\ Len(r.ledger) <= MaxRows
          /\ r.ledger # ledger \/ r.skipped # {} \/ r.threw
          /\ ledger' = r.ledger
          /\ last' = [NoOp EXCEPT !.op = "processSplitwiseMovements",
                                  !.assigned = r.assigned,
                                  !.skipped = r.skipped, !.threw = r.threw]
  /\ UNCHANGED run

NextRedelivery ==
  \/ ProcessMonzoTransactionsRedelivered
  \/ ProcessSplitwiseMovementsRedelivered

SpecRedelivery == Init /\ [][NextRedelivery]_vars

(***************************************************************************)
(* The repair of failed currency conversions.                              *)
(***************************************************************************)
\* A filter that hands every movement to the repair.
getMovementsWithFailedCurrencyConversion_All(l) == getAllMovements(l)

\* Database.getMovementsWithFailedCurrencyConversion
getMovementsWithFailedCurrencyConversion(l) ==
  SelectSeq(getAllMovements(l),
            LAMBDA movement :
              \/ isFailedConversion(movement.clp_value)
              \/ isFailedConversion(movement.usd_value)
              \/ isFailedConversion(movement.gbp_value))

\* CurrencyConversionService.fixCurrencyConversion: the three values when
\* the conversion succeeds (ok), nothing otherwise.
fixCurrencyConversion(amount, currency, ok) ==
  IF ok /\ currency \in CURRENCIES
  THEN [converted |-> TRUE, values |-> getAllCurrencyValues(amount, currency, TRUE)]
  ELSE [converted |-> FALSE, values |-> [c \in CURRENCIES |-> Failed]]

\* A repair that does not look at the amount and the currency of the row.
fixMovementCurrencyConversion_NoValidation(l, movementId, ok) ==
  LET movementRowIndex == findIndex(l, movementId)
  IN IF movementRowIndex = 0
     THEN [ledger |-> l, ret |-> FALSE, threw |-> FALSE, converted |-> FALSE]
     ELSE IF ~ok
     THEN [ledger |-> l, ret |-> FALSE, threw |-> FALSE, converted |-> FALSE]
     ELSE [ledger |-> l, ret |-> FALSE, threw |-> TRUE, converted |-> TRUE]

\* Database.fixMovementCurrencyConversion.  The three writes name a row,
\* sheetRowIndex, that the function never declares: evaluating the first
\* one raises a ReferenceError and no cell is written.
fixMovementCurrencyConversion(l, movementId, ok) ==
  LET movementRowIndex == findIndex(l, movementId)
      movement == l[movementRowIndex]
      amount == movement.amount
      currency == movement.currency
      currencyValues == fixCurrencyConversion(amount, currency, ok)
  IN IF movementRowIndex = 0
     THEN [ledger |-> l, ret |-> FALSE, threw |-> FALSE, converted |-> FALSE]
     ELSE IF Num(amount) = 0 \/ currency = Empty
     THEN [ledger |-> l, ret |-> FALSE, threw |-> FALSE, converted |-> FALSE]
     ELSE IF ~currencyValues.converted
     THEN [ledger |-> l, ret |-> FALSE, threw |-> FALSE, converted |-> FALSE]
     ELSE [ledger |-> l, ret |-> FALSE, threw |-> TRUE, converted |-> TRUE]

\* The forEach of fixAllFailedCurrencyConversions: an exception of one
\* call ends the loop, nothing catches it.
RECURSIVE FixEach(_, _, _, _)
FixEach(l, failedMovements, convertible, pass) ==
  IF failedMovements = <<>> THEN [pass EXCEPT !.ledger = l]
  ELSE LET movementId == Head(failedMovements).id
           r == fixMovementCurrencyConversion(l, movementId,
                                              movementId \in convertible)
           counted ==
             [pass EXCEPT
                !.attempted = Append(@, movementId),
                !.converted = IF r.converted THEN @ \cup {movementId} ELSE @,
                !.successCount = IF r.ret /\ ~r.threw THEN @ + 1 ELSE @,
                !.failureCount = IF ~r.ret /\ ~r.threw THEN @ + 1 ELSE @,
                !.threw = r.threw]
       IN IF r.threw THEN [counted EXCEPT !.ledger = r.ledger]
          ELSE FixEach(r.ledger, Tail(failedMovements), convertible, counted)

\* Database.fixAllFailedCurrencyConversions; the conversion succeeds for
\* the movements of `convertible`.
fixAllFailedCurrencyConversions(l, convertible) ==
  FixEach(l, getMovementsWithFailedCurrencyConversion(l), convertible,
          [ledger |-> l, successCount |-> 0, failureCount |-> 0,
           threw |-> FALSE, attempted |-> <<>>, converted |-> {}])

\* ExpenseTracker.fixFailedCurrencyConversions: logs the counts, logs and
\* rethrows an exception.
FixFailedCurrencyConversions ==
  /\ Idle
  /\ \E convertible \in SUBSET {movement.id : movement \in Range(getMovementsWithFailedCurrencyConversion(ledger))} :
       LET r == fixAllFailedCurrencyConversions(ledger, convertible)
       IN /\ ledger' = r.ledger
          /\ last' = [NoOp EXCEPT !.op = "fixFailedCurrencyConversions",
                                  !.threw = r.threw,
                                  !.successCount = r.successCount,
                                  !.failureCount = r.failureCount,
                                  !.attempted = r.attempted,
                                  !.converted = r.converted]
  /\ UNCHANGED run

\* The runs of the program and the repair pass.
NextRepair ==
  \/ Next
  \/ FixFailedCurrencyConversions

SpecRepair == Init /\ [][NextRepair]_vars

\* Every operation of the menu, and the user's mark for Splitwise.
NextUpkeep ==
  \/ Next
  \/ FixFailedCurrencyConversions
  \/ UserAwaitsSplitwise
  \/ PushToSplitwise

SpecUpkeep == Init /\ [][NextUpkeep]_vars

(***************************************************************************)
(* Direct calls of addMovementsBatch.                                      *)
(***************************************************************************)
MaxTs == 3

\* The timestamps of a batch entry: missing, unreadable, or a time.
BatchTimestamps == {Blank, NotADate} \cup (1..MaxTs)

\* A batch entry {ts, row} as the ingestion runs build it.
BatchItem(id, ts) ==
  [ts |-> ts, row |-> [ManualRow(id) EXCEPT !.timestamp = ts]]

\* A call of Database.addMovementsBatch with a batch whose rows carry the
\* next ids in the order given.
AddMovementsBatchCall ==
  /\ Idle
  /\ \E n \in 1..(MaxRows - Len(ledger)) :
       \E tss \in [1..n -> BatchTimestamps] :
         LET nextId == getNextId(ledger)
             movements == [i \in 1..n |-> BatchItem(nextId + i - 1, tss[i])]
         IN \E r \in addMovementsBatchOutcomes(ledger, movements) :
              /\ ledger' = r.ledger
              /\ last' = [NoOp EXCEPT !.op = "addMovementsBatch",
                                      !.assigned = [i \in 1..n |-> nextId + i - 1],
                                      !.threw = r.threw]
  /\ UNCHANGED run

NextBatch == AddMovementsBatchCall

SpecBatch == Init /\ [][NextBatch]_vars

\* The longest batch of a call with rows of any ids, and its latest time.
MaxBatch == 2

\* A call of Database.addMovementsBatch with rows of any ids, those of rows
\* of the ledger and of other rows of the batch included.  last.batch keeps
\* the id and the timestamp of each entry, in the order given.
AddMovementsBatchAnyCall ==
  /\ Idle
  /\ \E n \in 1..MaxBatch :
       \E tss \in [1..n -> {NotADate} \cup (1..MaxBatch)], ids \in [1..n -> 1..MaxRows] :
         LET movements == [i \in 1..n |-> BatchItem(ids[i], tss[i])]
         IN \E r \in addMovementsBatchOutcomes(ledger, movements) :
              /\ Len(r.ledger) <= MaxRows
              /\ ledger' = r.ledger
              /\ last' = [NoOp EXCEPT
                            !.op = "addMovementsBatch",
                            !.batch = [i \in 1..n |-> [id |-> ids[i], ts |-> tss[i]]],
                            !.threw = r.threw]
  /\ UNCHANGED run

NextBatchAny == AddMovementsBatchAnyCall

SpecBatchAny == Init /\ [][NextBatchAny]_vars

(***************************************************************************)
(* Direct calls of the field-level updates and of the splits.              *)
(***************************************************************************)
\* An analysis result that asks for no split.
PlainAnalysis ==
  [category |-> "household", needs_split |-> FALSE, split_type |-> Empty,
   split_amount |-> Blank, split_description |-> "their part",
   split_category |-> "restaurants", clean_description |-> Empty]

\* What the five field-level updates leave when called for movementId.
FieldUpdates(l, movementId) ==
  {updateMovementCategory(l, movementId, "household"),
   updateMovementWithAnalysis(l, movementId, PlainAnalysis),
   updateMovementStatus(l, movementId, STATUS.SETTLED),
   updateMovementSettledId(l, movementId, 1),
   updateMovementWithSplitwiseInfo(l, movementId, createExpense(1, {1}))}

\* A call of one of the field-level updates, with an id that may be absent.
FieldUpdateCall ==
  /\ Idle
  /\ \E movementId \in 1..(MaxRows + 1) :
       \E updated \in FieldUpdates(ledger, movementId) :
         /\ ledger' = updated
         /\ last' = [NoOp EXCEPT !.op = "fieldUpdate", !.id = movementId]
  /\ UNCHANGED run

\* The split information of a direct call.
SplitInfos ==
  {[split_amount |-> a, split_category |-> "restaurants",
    split_description |-> "their part", clean_description |-> "dinner"] :
     a \in {5, 20}}

\* if (newMovementId) splitCount++ else errorCount++: how the classification
\* run counts what a split returned.
splitCounted(newMovementId) ==
  IF newMovementId # Blank /\ newMovementId # 0 THEN "splitCount"
  ELSE "errorCount"

\* A call of one of the two splits, with an id that may be absent.
SplitCall ==
  /\ Idle
  /\ \E originalMovementId \in 1..(MaxRows + 1), splitInfo \in SplitInfos :
       \E op \in {"splitMovement", "splitExpenseForRecategorization"} :
         LET r == IF op = "splitMovement"
                  THEN splitMovement(ledger, originalMovementId, splitInfo)
                  ELSE splitExpenseForRecategorization(
                         ledger, originalMovementId, splitInfo)
         IN /\ Len(r.ledger) <= MaxRows
            /\ ledger' = r.ledger
            /\ last' = [NoOp EXCEPT !.op = op, !.id = originalMovementId,
                                    !.split_amount = splitInfo.split_amount,
                                    !.ret = r.ret, !.threw = r.threw]
  /\ UNCHANGED run

\* Direct calls of the field-level updates on a ledger of manual rows.
NextUpdates ==
  \/ AddMovementCall
  \/ FieldUpdateCall

SpecUpdates == Init /\ [][NextUpdates]_vars

\* Direct calls of the splits on a ledger of manual rows.
NextSplits ==
  \/ AddMovementCall
  \/ SplitCall

SpecSplits == Init /\ [][NextSplits]_vars

(***************************************************************************)
(* The main run: the seven stages of main, one step each.  last.stages     *)
(* lists the stages the run has executed, last.over tells that the run     *)
(* has returned or has left through its catch.                             *)
(***************************************************************************)
STAGES ==
  <<"processBankEmails", "processMonzoTransactions", "processSplitwiseMovements",
    "applyAutofillRules", "processUncategorizedMovements", "pushToSplitwise",
    "fixFailedCurrencyConversions">>

\* A run of main is between two of its stages.
InMain == last.op = "main" /\ ~last.over

\* The run is about to execute stage k: a new run for the first stage, the
\* run under way for the others.
AtStage(k) ==
  /\ Idle
  /\ IF k = 1 THEN ~InMain ELSE InMain /\ Len(last.stages) = k - 1

\* main after stage k: the stage has written l; when it threw, the catch of
\* main logs the error and throws it again, and the run is over; the run is
\* over as well when the last stage has returned.
StageDone(k, l, threw) ==
  /\ ledger' = l
  /\ last' = [NoOp EXCEPT
                !.op = "main",
                !.stages = (IF k = 1 THEN <<>> ELSE last.stages) \o <<STAGES[k]>>,
                !.threw = threw,
                !.over = (threw \/ k = Len(STAGES))]
  /\ UNCHANGED run

\* The parser's answers in a run of main: the transaction of each email.
MainEmailReply ==
  [id \in {message.id : message \in GmailMessages} |->
     IF id = "m1"
     THEN [amount |-> 100, currency |-> "gbp", transaction_type |-> "debit"]
     ELSE [amount |-> 95, currency |-> "gbp", transaction_type |-> "debit repayment"]]

\* Stage 1.  raised: the Gmail query throws.
MainProcessBankEmails ==
  /\ AtStage(1)
  /\ \E raised \in BOOLEAN, messages \in GmailFetches :
       LET r == processBankEmails(ledger, messages, MainEmailReply, TRUE)
       IN /\ raised => messages = <<>>
          /\ Len(r.ledger) <= MaxRows
          /\ StageDone(1, IF raised THEN ledger ELSE r.ledger, raised \/ r.threw)

\* Stage 2.  raised: the request to Monzo throws.
MainProcessMonzoTransactions ==
  /\ AtStage(2)
  /\ \E raised \in BOOLEAN, transactions \in MonzoFetches, ok \in BOOLEAN :
       LET r == processMonzoTransactions(ledger, TRUE, transactions, ok)
       IN /\ raised => transactions = <<>> /\ ok
          /\ Len(r.ledger) <= MaxRows
          /\ StageDone(2, IF raised THEN ledger ELSE r.ledger, raised \/ r.threw)

\* Stage 3.  raised: a request to Splitwise throws.
MainProcessSplitwiseMovements ==
  /\ AtStage(3)
  /\ \E raised \in BOOLEAN, allMovements \in SplitwiseFetches(ledger) :
       LET r == processSplitwiseMovements(ledger, TRUE, allMovements, TRUE)
       IN /\ raised => allMovements = <<>>
          /\ Len(r.ledger) <= MaxRows
          /\ StageDone(3, IF raised THEN ledger ELSE r.ledger, raised \/ r.threw)

\* ExpenseTracker.applyAutofillRules with an empty sheet of rules.
applyAutofillRules(l) == l

\* Stage 4.  raised: the sheet of rules cannot be read.
MainApplyAutofillRules ==
  /\ AtStage(4)
  /\ \E raised \in BOOLEAN : StageDone(4, applyAutofillRules(ledger), raised)

\* The loop of processUncategorizedMovements over the movements read at its
\* start; an error in the pass of one movement is caught in the loop.
RECURSIVE AnalyzeEach(_, _, _, _)
AnalyzeEach(l, movements, analysis, match) ==
  IF movements = <<>> THEN l
  ELSE LET movement == Head(movements)
           r == analyzeMovement(l, movement, analysis[movement.id], match[movement.id])
       IN AnalyzeEach(r.ledger, Tail(movements), analysis, match)

\* Stage 5, with a classifier that asks for no split.  raised: the sheet
\* cannot be read at the start of the stage.
MainProcessUncategorizedMovements ==
  /\ AtStage(5)
  /\ LET movements == getMovementsNeedingCategoryAnalysis(ledger)
         ids == {movement.id : movement \in Range(movements)}
     IN \E raised \in BOOLEAN,
           analysis \in [ids -> {NoAnalysis, parseCategoryAnalysisResponse(PlainAnalysis)}],
           match \in [ids -> MatchReplies] :
          /\ raised => /\ \A id \in ids : analysis[id] = NoAnalysis
                       /\ \A id \in ids : match[id] = Blank
          /\ \A movement \in Range(movements) :
               movement.type # MOVEMENT_TYPES.DEBIT_REPAYMENT =>
                 match[movement.id] = Blank
          /\ StageDone(5, IF raised THEN ledger
                          ELSE AnalyzeEach(ledger, movements, analysis, match),
                       raised)

\* Stage 6.  raised: the connection test throws.
MainPushToSplitwise ==
  /\ AtStage(6)
  /\ \E raised \in BOOLEAN,
        created \in SUBSET {movement.id : movement \in Range(getMovementsPendingSplitwiseSettlement(ledger))} :
       /\ raised => created = {}
       /\ StageDone(6, IF raised THEN ledger
                       ELSE pushToSplitwise(ledger, TRUE, created),
                    raised)

\* Stage 7.
MainFixFailedCurrencyConversions ==
  /\ AtStage(7)
  /\ \E convertible \in SUBSET {movement.id : movement \in Range(getMovementsWithFailedCurrencyConversion(ledger))} :
       LET r == fixAllFailedCurrencyConversions(ledger, convertible)
       IN StageDone(7, r.ledger, r.threw)

\* Between two runs of main the user describes movements and marks them for
\* Splitwise.
NextMain ==
  \/ MainProcessBankEmails
  \/ MainProcessMonzoTransactions
  \/ MainProcessSplitwiseMovements
  \/ MainApplyAutofillRules
  \/ MainProcessUncategorizedMovements
  \/ MainPushToSplitwise
  \/ MainFixFailedCurrencyConversions
  \/ (~InMain /\ UserDescribes)
  \/ (~InMain /\ UserAwaitsSplitwise)

SpecMain == Init /\ [][NextMain]_vars

(***************************************************************************)
(* Overlapping ingestion runs.  No lock is taken anywhere: two executions  *)
(* of the script interleave between any two calls on the sheet.  run holds *)
(* the executions under way, each with its place and its local values.     *)
(***************************************************************************)
MaxRuns == 2

\* An execution that has just started an ingestion from source.
NewRun(source) ==
  [source |-> source, pc |-> "getExistingSourceIds", records |-> <<>>,
   batchMovements |-> <<>>]

\* The executions under way without the i-th, which has returned or thrown.
RunEnded(i) == SubSeq(run, 1, i - 1) \o SubSeq(run, i + 1, Len(run))

\* A trigger or the user starts an ingestion while at most one other runs.
StartRun ==
  /\ Len(run) < MaxRuns
  /\ \E source \in {SOURCES.MONZO, SOURCES.GMAIL} :
       run' = Append(run, NewRun(source))
  /\ last' = [NoOp EXCEPT !.op = "startRun"]
  /\ UNCHANGED ledger

\* processMonzoTransactions, processBankEmails: the read of the existing
\* keys, then the fetch and the filter of what the source returned.
ReadExistingSourceIds ==
  \E i \in 1..Len(run) :
    /\ run[i].pc = "getExistingSourceIds"
    /\ LET existing == getExistingSourceIds(ledger, run[i].source)
       IN \E fetched \in IF run[i].source = SOURCES.MONZO
                         THEN MonzoFetches ELSE GmailFetches :
            LET new == SelectSeq(fetched, LAMBDA record : record.id \notin existing)
            IN /\ fetched # <<>>
               /\ run' = IF new = <<>> THEN RunEnded(i)
                         ELSE [run EXCEPT ![i].pc = "getNextId", ![i].records = new]
    /\ last' = [NoOp EXCEPT !.op = "getExistingSourceIds"]
    /\ UNCHANGED ledger

\* The rows of the batch of an execution, numbered from nextId.
BatchOf(source, records, nextId) ==
  IF source = SOURCES.MONZO
  THEN [k \in 1..Len(records) |->
          [ts |-> records[k].settled,
           row |-> createMonzoMovementRow(records[k], nextId + k - 1, TRUE),
           monzoId |-> records[k].id]]
  ELSE LET transactions ==
             [k \in 1..Len(records) |->
                parseGoogleAIStudioResponse(MainEmailReply[records[k].id], records[k])]
       IN [k \in 1..Len(transactions) |->
             [ts |-> transactions[k].timestamp,
              row |-> createMovementRow(transactions[k], nextId + k - 1, TRUE),
              gmailId |-> transactions[k].gmailId]]

\* The read of getNextId, the numbering of the rows and the sort of
\* addMovementsBatch.
ReadNextId ==
  \E i \in 1..Len(run) :
    /\ run[i].pc = "getNextId"
    /\ run' = [run EXCEPT
                 ![i].pc = "idExists",
                 ![i].batchMovements =
                    SortByTs(BatchOf(run[i].source, run[i].records, getNextId(ledger)))]
    /\ last' = [NoOp EXCEPT !.op = "getNextId"]
    /\ UNCHANGED ledger

\* addMovement, first half: the read of the ids; the execution throws when
\* the id of the row is among them.
CheckIdExists ==
  \E i \in 1..Len(run) :
    /\ run[i].pc = "idExists"
    /\ LET threw == idExists(ledger, Head(run[i].batchMovements).row.id)
       IN /\ run' = IF threw THEN RunEnded(i)
                    ELSE [run EXCEPT ![i].pc = "appendRow"]
          /\ last' = [NoOp EXCEPT !.op = "idExists", !.threw = threw]
    /\ UNCHANGED ledger

\* addMovement, second half: appendRow.
AppendRow ==
  \E i \in 1..Len(run) :
    /\ run[i].pc = "appendRow"
    /\ Len(ledger) < MaxRows
    /\ ledger' = Append(ledger, Head(run[i].batchMovements).row)
    /\ run' = IF Len(run[i].batchMovements) = 1 THEN RunEnded(i)
              ELSE [run EXCEPT ![i].pc = "idExists",
                               ![i].batchMovements = Tail(run[i].batchMovements)]
    /\ last' = [NoOp EXCEPT !.op = "appendRow",
                            !.assigned = <<Head(run[i].batchMovements).row.id>>]

NextOverlap ==
  \/ StartRun
  \/ ReadExistingSourceIds
  \/ ReadNextId
  \/ CheckIdExists
  \/ AppendRow

SpecOverlap == Init /\ [][NextOverlap]_vars

(***************************************************************************)
(* A split that overlaps another execution.  The split reads the rows and  *)
(* the next id and writes the cells of the original row; the insert of the *)
(* new half is a later call on the sheet, and another execution may append *)
(* a row in between.                                                       *)
(***************************************************************************)
SPLITS == {"splitMovement", "splitExpenseForRecategorization"}

\* What a split computes from the rows it read: its result on those rows.
SplitOf(l, op, originalMovementId, splitInfo) ==
  IF op = "splitMovement"
  THEN splitMovement(l, originalMovementId, splitInfo)
  ELSE splitExpenseForRecategorization(l, originalMovementId, splitInfo)

\* The split information of the overlapping calls: one amount is enough.
OverlapSplitInfos == {splitInfo \in SplitInfos : splitInfo.split_amount = 5}

\* splitMovement, splitExpenseForRecategorization up to the insert: the
\* reads, the early returns and the writes of the original row in place.
StartSplit ==
  /\ Len(run) < MaxRuns
  /\ \E originalMovementId \in 1..MaxRows, splitInfo \in OverlapSplitInfos, op \in SPLITS :
       LET r == SplitOf(ledger, op, originalMovementId, splitInfo)
           k == findIndex(ledger, originalMovementId)
       IN IF r.ret = Blank
          THEN /\ UNCHANGED <<ledger, run>>
               /\ last' = [NoOp EXCEPT !.op = op, !.id = originalMovementId,
                                       !.split_amount = splitInfo.split_amount]
          ELSE /\ ledger' = SubSeq(r.ledger, 1, Len(ledger))
               /\ run' = Append(run,
                           [source |-> op, pc |-> "addMovement",
                            originalMovementId |-> originalMovementId,
                            originalMovement |-> ledger[k],
                            split_amount |-> splitInfo.split_amount,
                            newMovement |-> r.ledger[Len(r.ledger)]])
               /\ last' = [NoOp EXCEPT !.op = "splitWrites",
                                       !.id = originalMovementId]

\* The insert of the new half: addMovement throws when the id is taken, and
\* neither split catches it.
SplitAddMovement ==
  \E i \in 1..Len(run) :
    /\ run[i].pc = "addMovement"
    /\ LET added == addMovement(ledger, run[i].newMovement)
       IN /\ Len(added.ledger) <= MaxRows
          /\ ledger' = added.ledger
          /\ last' = [NoOp EXCEPT
                        !.op = run[i].source,
                        !.id = run[i].originalMovementId,
                        !.split_amount = run[i].split_amount,
                        !.ret = IF added.threw THEN Blank
                                ELSE run[i].newMovement.id,
                        !.threw = added.threw,
                        !.original = <<run[i].originalMovement>>]
    /\ run' = RunEnded(i)

\* Splits of two executions that overlap, on a ledger of manual rows.
NextSplitOverlap ==
  \/ AddMovementCall
  \/ StartSplit
  \/ SplitAddMovement

SpecSplitOverlap == Init /\ [][NextSplitOverlap]_vars

(***************************************************************************)
(* The settlement step on its own: processDebitRepaymentSettlement called  *)
(* for a repayment row of the ledger, as the classification run calls it.  *)
(***************************************************************************)
SettlementCall ==
  /\ Idle
  /\ \E k \in 1..Len(ledger), matchedDebitId \in MatchReplies :
       LET repaymentMovement == ledger[k]
           r == processDebitRepaymentSettlement(
                  ledger, repaymentMovement.id, repaymentMovement, matchedDebitId)
       IN /\ repaymentMovement.type = MOVEMENT_TYPES.DEBIT_REPAYMENT
          /\ ledger' = r.ledger
          /\ last' = [NoOp EXCEPT !.op = "processDebitRepaymentSettlement",
                                  !.id = repaymentMovement.id,
                                  !.matched = r.matched]
  /\ UNCHANGED run

NextSettlement ==
  \/ Next
  \/ SettlementCall

SpecSettlement == Init /\ [][NextSettlement]_vars

(***************************************************************************)
(* pushToSplitwise with its outcome on record: the movements it read, the  *)
(* ones Splitwise created an expense for, and its two counters.  A run     *)
(* whose creations all fail, or whose connection test fails, is a step.    *)
(***************************************************************************)
PushToSplitwiseRun ==
  /\ Idle
  /\ LET pendingMovements == getMovementsPendingSplitwiseSettlement(ledger)
         pendingIds == [k \in 1..Len(pendingMovements) |-> pendingMovements[k].id]
     IN /\ pendingMovements # <<>>
        /\ \E connectionTest \in BOOLEAN, created \in SUBSET Range(pendingIds) :
             /\ ~connectionTest => created = {}
             /\ ledger' = pushToSplitwise(ledger, connectionTest, created)
             /\ last' = [NoOp EXCEPT
                           !.op = "pushToSplitwise",
                           !.attempted = IF connectionTest THEN pendingIds ELSE <<>>,
                           !.converted = created,
                           !.successCount = Cardinality(created),
                           !.failureCount =
                              IF connectionTest
                              THEN Len(pendingIds) - Cardinality(created)
                              ELSE 0]
  /\ UNCHANGED run

NextPush ==
  \/ Next
  \/ UserAwaitsSplitwise
  \/ PushToSplitwiseRun

SpecPush == Init /\ [][NextPush]_vars

(***************************************************************************)
(* Properties.                                                             *)
(***************************************************************************)
\* The number of rows that carry the key (source, source_id).
KeyCount(l, source, source_id) ==
  Cardinality({i \in 1..Len(l) :
                 l[i].source = source /\ l[i].source_id = source_id})

\* C1: idempotent ingestion.  Over sequential ingestion runs, a record that a
\* source delivers again is skipped, and every source record that reached the
\* ledger is held by exactly one row.
C1_IdempotentIngestion ==
  /\ \A t \in MonzoTransactions : KeyCount(ledger, SOURCES.MONZO, t.id) <= 1
  /\ \A m \in GmailMessages : KeyCount(ledger, SOURCES.GMAIL, m.id) <= 1
  /\ \A id \in last.skipped : KeyCount(ledger, SOURCES.MONZO, id) = 1

\* A run was delivered a record an earlier run had inserted, and skipped it.
C1_Witness ==
  /\ last.op = "processMonzoTransactions"
  /\ "tx1" \in last.skipped
  /\ KeyCount(ledger, SOURCES.MONZO, "tx1") = 1
  /\ Len(ledger) = 3

\* C2: in every reachable state no two rows carry the same non-empty
\* (source, source_id) pair.
C2_OneRowPerSourceKey ==
  \A i, j \in 1..Len(ledger) :
    /\ ledger[i].source_id # Empty
    /\ ledger[i].source = ledger[j].source
    /\ ledger[i].source_id = ledger[j].source_id
    => i = j

\* The ids of the rows of a ledger.
Ids(l) == {l[i].id : i \in 1..Len(l)}

\* C3: addMovement throws and appends nothing when the id of the row is
\* already in the ledger, and otherwise appends exactly that one row; so in
\* every state reached by ingestion batches, splits and inserts no two rows
\* have the same id.
C3_UniqueIds ==
  /\ [](\A i, j \in 1..Len(ledger) : ledger[i].id = ledger[j].id => i = j)
  /\ [][last'.op = "addMovement" =>
          IF last'.id \in Ids(ledger)
          THEN last'.threw /\ ledger' = ledger
          ELSE /\ ~last'.threw
               /\ Len(ledger') = Len(ledger) + 1
               /\ SubSeq(ledger', 1, Len(ledger)) = ledger
               /\ ledger'[Len(ledger')].id = last'.id]_vars

\* An insert with an id already present was refused, on a ledger that holds
\* rows of an ingestion batch and of a split.
C3_Witness ==
  /\ last.op = "addMovement"
  /\ last.threw
  /\ last.id \in Ids(ledger)
  /\ \E i \in 1..Len(ledger) : ledger[i].ai_comment[1] = "Split from #"

\* The ids a step assigned to new movements, in the order it assigned them.
Assigned(op) ==
  IF op.ret # Blank THEN <<op.ret>> ELSE op.assigned

\* C4: id monotonicity.  In every step of an ingestion batch or a split, the
\* ids assigned to the new movements are strictly increasing in the order of
\* assignment and greater than every id the ledger already holds, the rows
\* there keep their ids, and the new rows carry exactly the assigned ids; so
\* no id is ever given to two movements.
C4_IdMonotonicity ==
  [][LET a == Assigned(last')
     IN last'.op \in {"processMonzoTransactions", "processBankEmails",
                     "analyzeMovement"} =>
          /\ \A i, j \in 1..Len(a) : i < j => a[i] < a[j]
          /\ \A i \in 1..Len(a) : \A id \in Ids(ledger) : a[i] > id
          /\ Len(ledger') = Len(ledger) + Len(a)
          /\ \A i \in 1..Len(ledger) : ledger'[i].id = ledger[i].id
          /\ {ledger'[i].id : i \in (Len(ledger) + 1)..Len(ledger')} = Range(a)]_vars

\* A batch of two ingested rows was followed by a split, whose new row got
\* the next id.
C4_Witness ==
  /\ last.op = "analyzeMovement"
  /\ last.ret = 3
  /\ Len(ledger) = 3
  /\ ledger[3].ai_comment = SplitFrom(last.id)
  /\ ledger[1].source = SOURCES.GMAIL
  /\ ledger[2].source = SOURCES.GMAIL

\* One more than the greatest id of a set of ids; 1 for no ids.
SmallestAbove(ids) ==
  IF ids = {} THEN 1
  ELSE (CHOOSE m \in ids : \A x \in ids : x <= m) + 1

\* The ids the ledger held before the last operation added its rows.
PriorIds ==
  Ids(ledger) \ (Range(last.assigned) \cup {last.ret})

\* C5: getNextId returns 1 on an empty ledger and otherwise the greatest
\* existing id plus one, never the id of an existing row; the first id of a
\* batch and the id of a split-created row are that value for the ledger the
\* operation found.
C5_NextId ==
  /\ getNextId(ledger) = SmallestAbove(Ids(ledger))
  /\ getNextId(ledger) \notin Ids(ledger)
  /\ last.assigned # <<>> => last.assigned[1] = SmallestAbove(PriorIds)
  /\ last.ret # Blank => last.ret = SmallestAbove(PriorIds)

\* A batch found a ledger whose only row had id 3 and gave its row id 4.
C5_Witness ==
  /\ last.op \in {"processMonzoTransactions", "processBankEmails"}
  /\ last.assigned = <<4>>
  /\ Ids(ledger) = {3, 4}
  /\ Len(ledger) = 2

\* The last step ran splitMovement and it created a row.
SharedSplitDone(op) ==
  /\ op.op = "analyzeMovement"
  /\ op.split_type \notin {Empty, "EXPENSE"}
  /\ op.ret # Blank

\* The last step ran splitExpenseForRecategorization.
RecatSplitCalled(op) ==
  /\ op.op = "analyzeMovement"
  /\ op.split_type = "EXPENSE"

\* C6: amount conservation of the shared-expense split.  After splitMovement
\* on a movement with amount A and split amount s, the original row has
\* amount s, the new row has amount A - s, and the two amounts sum to A.
C6_SharedSplitAmounts ==
  [][SharedSplitDone(last') =>
       LET i == findIndex(ledger, last'.id)
           A == Num(ledger[i].amount)
           s == last'.split_amount
           new == ledger'[Len(ledger')]
       IN /\ Len(ledger') = Len(ledger) + 1
          /\ new.id = last'.ret
          /\ ledger'[i].amount = s
          /\ new.amount = A - Num(s)
          /\ Num(ledger'[i].amount) + new.amount = A]_vars

\* A movement of 100 was split with split amount 60 into 60 and 40.
C6_Witness ==
  /\ SharedSplitDone(last)
  /\ last.split_amount = 60
  /\ ledger[findIndex(ledger, last.id)].amount = 60
  /\ ledger[findIndex(ledger, last.id)].original_amount = 100
  /\ ledger[Len(ledger)].amount = 40
  /\ ledger[Len(ledger)].id = last.ret

\* value = original * (partAmount / originalAmount), as an equation between
\* integers.
IsScaled(value, original, partAmount, originalAmount) ==
  /\ ~isFailedConversion(value)
  /\ value[2] * original[3] * originalAmount =
       original[2] * partAmount * value[3]

\* a + b = original, as an equation between integers.
SumsTo(a, b, original) ==
  (a[2] * b[3] + b[2] * a[3]) * original[3] = original[2] * a[3] * b[3]

\* The three stored values of a row.
ValuesOf(row) == [CLP |-> row.clp_value, USD |-> row.usd_value, GBP |-> row.gbp_value]

C8_InvalidRecatSplit ==
  [][RecatSplitCalled(last') =>
       LET i == findIndex(ledger, last'.id)
           A == ledger[i].amount
           s == last'.split_amount
       IN ~(s # Blank /\ A # Blank /\ 0 < s /\ s < A) =>
            /\ last'.ret = Blank
            /\ Len(ledger') = Len(ledger)
            /\ ledger'[i] =
                 IF last'.matched = Blank THEN ledger[i]
                 ELSE [ledger[i] EXCEPT !.settled_movement_id = last'.matched]
            /\ last'.matched = Blank => ledger' = ledger]_vars

\* A re-categorization split of 60 was asked of a movement of 40 and refused.
C8_Witness ==
  /\ RecatSplitCalled(last)
  /\ last.split_amount = 60
  /\ last.ret = Blank
  /\ ledger[findIndex(ledger, last.id)].amount = 40

\* C9: in every reachable state no movement has a negative amount or an
\* unset currency.
C9_NoNegativeAmount ==
  \A i \in 1..Len(ledger) :
    /\ ledger[i].amount = Blank \/ ledger[i].amount >= 0
    /\ ledger[i].currency # Empty

\* repaymentAmount / debitAmount >= 0.95, for a debit amount other than 0.
RatioSettles(repaymentAmount, debitAmount) ==
  \/ debitAmount > 0 /\ 100 * repaymentAmount >= 95 * debitAmount
  \/ debitAmount < 0 /\ 100 * repaymentAmount <= 95 * debitAmount

\* C10: settlement thresholds.  When a repayment is matched to a pending
\* debit, the debit becomes settled if and only if repaymentAmount /
\* debitAmount >= 0.95 and otherwise stays pending, and the repayment row
\* records the id of the debit.  The repayment amount is the one the pass
\* read at its start.
C10_SettlementThreshold ==
  [][(last'.op = "analyzeMovement" /\ last'.matched # Blank) =>
       LET d == findIndex(ledger', last'.matched)
           i == findIndex(ledger', last'.id)
           repaymentAmount == Num(Head(run).amount)
           debitAmount == Num(ledger'[d].amount)
       IN /\ d # 0
          /\ ledger'[d].type = MOVEMENT_TYPES.DEBIT
          /\ ledger'[i].settled_movement_id = last'.matched
          /\ debitAmount # 0 =>
               /\ ledger'[d].status = STATUS.SETTLED
                    <=> RatioSettles(repaymentAmount, debitAmount)
               /\ ledger'[d].status \in
                    {STATUS.SETTLED, STATUS.PENDING_DIRECT_SETTLEMENT}]_vars

\* A repayment of 95 was matched to a pending debit of 100, which is settled.
C10_Witness ==
  /\ last.op = "analyzeMovement"
  /\ last.matched # Blank
  /\ ledger[findIndex(ledger, last.id)].amount = 95
  /\ ledger[findIndex(ledger, last.id)].settled_movement_id = last.matched
  /\ ledger[findIndex(ledger, last.matched)].amount = 100
  /\ ledger[findIndex(ledger, last.matched)].status = STATUS.SETTLED

\* C11: whenever the matcher selects one of the pending debits for a
\* repayment, the settlement step records the id of that debit as the
\* settled_movement_id of the repayment, whatever the ratio of the amounts.
C11_SettledIdRecorded ==
  (last.op = "analyzeMovement" /\ last.matched # Blank) =>
    /\ findIndex(ledger, last.id) # 0
    /\ ledger[findIndex(ledger, last.id)].type = MOVEMENT_TYPES.DEBIT_REPAYMENT
    /\ ledger[findIndex(ledger, last.id)].settled_movement_id = last.matched

\* A repayment of 30 was matched to a debit of 100: the ratio is below one
\* half, the debit stays pending and the reference is recorded.
C11_Witness ==
  /\ last.op = "analyzeMovement"
  /\ last.matched # Blank
  /\ ledger[findIndex(ledger, last.id)].amount = 30
  /\ ledger[findIndex(ledger, last.id)].settled_movement_id = last.matched
  /\ ledger[findIndex(ledger, last.matched)].amount = 100
  /\ ledger[findIndex(ledger, last.matched)].status = STATUS.PENDING_DIRECT_SETTLEMENT

\* C12: settled is terminal.  No step changes the status of a movement
\* that is settled, and no operation of a run (classification, split,
\* settlement, push to Splitwise, repair, ingestion) takes a debit out of
\* pending_direct_settlement other than into settled.
C12_SettledTerminal ==
  [][/\ Len(ledger') >= Len(ledger)
     /\ \A i \in 1..Len(ledger) :
          /\ ledger'[i].id = ledger[i].id
          /\ ledger[i].status = STATUS.SETTLED =>
               ledger'[i].status = STATUS.SETTLED
          /\ ( /\ last'.op # "userAwaitsSplitwise"
               /\ ledger[i].type = MOVEMENT_TYPES.DEBIT
               /\ ledger[i].status = STATUS.PENDING_DIRECT_SETTLEMENT ) =>
               ledger'[i].status \in
                 {STATUS.PENDING_DIRECT_SETTLEMENT, STATUS.SETTLED}]_vars

\* A push to Splitwise has just uploaded a movement while a settled debit
\* was in the ledger, and the debit is still settled.
C12_Witness ==
  /\ last.op = "pushToSplitwise"
  /\ \E i, j \in 1..Len(ledger) :
       /\ ledger[i].type = MOVEMENT_TYPES.DEBIT
       /\ ledger[i].status = STATUS.SETTLED
       /\ ledger[j].status = STATUS.IN_SPLITWISE

\* C13: a settled_movement_id is set at most once and never cleared.  Once
\* the settled_movement_id of a row holds a value, no classification or
\* settlement run replaces it with another value or empties it.
C13_SettledIdSetOnce ==
  [][\A i \in 1..Len(ledger) :
       ledger[i].settled_movement_id # Blank =>
         /\ i <= Len(ledger')
         /\ ledger'[i].settled_movement_id = ledger[i].settled_movement_id]_vars

\* C14: in every reachable state, every settled_movement_id that is not
\* empty is the id of a movement of the ledger whose type is Debit or Credit.
C14_SettledIdReferencesDebit ==
  \A i \in 1..Len(ledger) :
    ledger[i].settled_movement_id # Blank =>
      /\ findIndex(ledger, ledger[i].settled_movement_id) # 0
      /\ ledger[findIndex(ledger, ledger[i].settled_movement_id)].type
           \in {MOVEMENT_TYPES.DEBIT, MOVEMENT_TYPES.CREDIT}

\* Two rows hold a reference: a repayment, and the debit that a later split
\* of the repayment copied from it.
C14_Witness ==
  \E i, j \in 1..Len(ledger) :
    /\ ledger[i].type = MOVEMENT_TYPES.DEBIT_REPAYMENT
    /\ ledger[i].settled_movement_id # Blank
    /\ ledger[j].type = MOVEMENT_TYPES.DEBIT
    /\ ledger[j].settled_movement_id # Blank
    /\ ledger[findIndex(ledger, ledger[j].settled_movement_id)].type
         = MOVEMENT_TYPES.DEBIT

\* The positions of the rows the last batch appended.
Appended == (Len(ledger) - Len(last.assigned) + 1)..Len(ledger)

\* Whether a stored timestamp is a time.
IsTime(ts) == ts # Blank /\ ts # NotADate

\* C15: batch ordering.  The rows of a batch are appended in ascending
\* order of their timestamps, in whatever order the batch was given: of two
\* appended rows that carry a time, the earlier row has the earlier time.
C15_BatchAscending ==
  (last.op = "addMovementsBatch" /\ ~last.threw) =>
    \A i, j \in Appended :
      (i < j /\ IsTime(ledger[i].timestamp) /\ IsTime(ledger[j].timestamp)) =>
        ledger[i].timestamp <= ledger[j].timestamp

\* C16: every entry of a batch whose timestamp is missing or cannot be
\* parsed is appended before every entry of the batch that has a valid
\* timestamp.
C16_InvalidTimestampsFirst ==
  (last.op = "addMovementsBatch" /\ ~last.threw) =>
    \A i, j \in Appended :
      (IsTime(ledger[i].timestamp) /\ ~IsTime(ledger[j].timestamp)) => j < i

\* C17: a field-level update (updateMovementCategory,
\* updateMovementWithAnalysis, updateMovementStatus, updateMovementSettledId,
\* updateMovementWithSplitwiseInfo) called with an id that no row of the
\* ledger carries leaves the ledger as it was and raises no error.
C17_MissingIdUpdate ==
  [][(last'.op = "fieldUpdate" /\ findIndex(ledger, last'.id) = 0) =>
       (ledger' = ledger /\ ~last'.threw /\ run' = run)]_vars

\* An update was called for an id that none of the two rows carries.
C17_Witness ==
  /\ last.op = "fieldUpdate"
  /\ Len(ledger) = 2
  /\ findIndex(ledger, last.id) = 0
  /\ ~last.threw

\* C18: a split (splitMovement, splitExpenseForRecategorization) called
\* with an original movement id that no row carries returns null, inserts
\* no row and changes no row, and the caller counts it as a failed split.
C18_MissingIdSplit ==
  [][( /\ last'.op \in {"splitMovement", "splitExpenseForRecategorization"}
       /\ findIndex(ledger, last'.id) = 0 ) =>
       /\ ledger' = ledger
       /\ last'.ret = Blank
       /\ ~last'.threw
       /\ splitCounted(last'.ret) = "errorCount"]_vars

\* A split was called for an id that none of the two rows carries, and
\* returned null.
C18_Witness ==
  /\ last.op = "splitExpenseForRecategorization"
  /\ Len(ledger) = 2
  /\ findIndex(ledger, last.id) = 0
  /\ last.ret = Blank
  /\ splitCounted(last.ret) = "errorCount"

\* C19: a conversion failure is recoverable by the repair pass.  After a
\* repair pass in which the conversion succeeded for a movement that has a
\* failed-conversion value, a valid amount and a valid currency, the stored
\* clp_value, usd_value and gbp_value of the movement are the converted
\* values and the pass counted the movement as a success.
C19_RepairRecovers ==
  [][(last'.op = "fixFailedCurrencyConversions" /\ last'.converted # {}) =>
       /\ ~last'.threw
       /\ last'.successCount >= Cardinality(last'.converted)
       /\ \A id \in last'.converted :
            LET before == ledger[findIndex(ledger, id)]
                after == ledger'[findIndex(ledger', id)]
            IN originalCurrencyValues(after) =
                 getAllCurrencyValues(before.amount, before.currency, TRUE)]_vars

\* C20: the repair pass attempts every movement that has a failed-conversion
\* value and returns counts with successCount + failureCount equal to the
\* number of those movements; no repair of one movement ends the pass.
C20_RepairPassCounts ==
  [][last'.op = "fixFailedCurrencyConversions" =>
       LET failedMovements == getMovementsWithFailedCurrencyConversion(ledger)
       IN /\ ~last'.threw
          /\ last'.attempted =
               [i \in 1..Len(failedMovements) |-> failedMovements[i].id]
          /\ last'.successCount + last'.failureCount = Len(failedMovements)]_vars

\* Whether the repair refuses the row: !amount || !currency || isNaN(amount).
InvalidForRepair(row) == Num(row.amount) = 0 \/ row.currency = Empty

\* The ids in a sequence of ids.
Attempted(op) == {op.attempted[k] : k \in 1..Len(op.attempted)}

\* C21: the repair of a movement whose amount or currency is itself invalid
\* leaves the movement, and so its failed-conversion values, as it was; no
\* conversion is made for it and it is counted as a failure.
C21_InvalidRowNotRepaired ==
  [][last'.op = "fixFailedCurrencyConversions" =>
       LET invalid == {id \in Attempted(last') :
                         InvalidForRepair(ledger[findIndex(ledger, id)])}
       IN /\ \A id \in invalid :
               /\ findIndex(ledger', id) = findIndex(ledger, id)
               /\ ledger'[findIndex(ledger, id)] = ledger[findIndex(ledger, id)]
               /\ id \notin last'.converted
          /\ last'.failureCount >= Cardinality(invalid)]_vars

\* A repair pass attempted a movement with an empty amount and failed
\* values, and counted a failure.
C21_Witness ==
  /\ last.op = "fixFailedCurrencyConversions"
  /\ ~last.threw
  /\ last.failureCount >= 1
  /\ \E id \in Attempted(last) :
       /\ ledger[findIndex(ledger, id)].amount = Blank
       /\ isFailedConversion(ledger[findIndex(ledger, id)].clp_value)

\* Whether one of the three stored values of the row is a failed conversion.
HasFailedValue(row) ==
  \/ isFailedConversion(row.clp_value)
  \/ isFailedConversion(row.usd_value)
  \/ isFailedConversion(row.gbp_value)

FailsValidation(parsedData) ==
  \/ parsedData.category # Empty /\ parsedData.category \notin validCategories
  \/ /\ parsedData.needs_split
     /\ parsedData.split_amount = Blank \/ parsedData.split_type = Empty
  \/ /\ parsedData.needs_split
     /\ parsedData.split_type = "DEBIT"
     /\ parsedData.split_category \notin validCategories

\* C23: a classifier answer that fails validation is discarded as a whole.
\* The parser returns nothing for it, and the pass of a movement whose
\* analysis returned nothing changes no field of any row and leaves the
\* movement among those getMovementsNeedingCategoryAnalysis returns.
C23_InvalidAnalysisDiscarded ==
  /\ [](\A parsedData \in ClassifierAnswers :
          FailsValidation(parsedData) =>
            parseCategoryAnalysisResponse(parsedData) = NoAnalysis)
  /\ [][(last'.op = "analyzeMovement" /\ last'.discarded) =>
          /\ ledger' = ledger
          /\ ~last'.threw
          /\ \E k \in 1..Len(getMovementsNeedingCategoryAnalysis(ledger')) :
               getMovementsNeedingCategoryAnalysis(ledger')[k].id = last'.id]_vars

\* The analysis of a movement was discarded; the movement still has its
\* description and no category.
C23_Witness ==
  /\ last.op = "analyzeMovement"
  /\ last.discarded
  /\ findIndex(ledger, last.id) # 0
  /\ ledger[findIndex(ledger, last.id)].category = Empty
  /\ ledger[findIndex(ledger, last.id)].user_description # Empty

\* C24: in every reachable state, a category that is not empty is a member
\* of the category vocabulary.
C24_CategoriesInVocabulary ==
  \A k \in 1..Len(ledger) :
    ledger[k].category # Empty => ledger[k].category \in validCategories

\* C25: when the matcher gives no match for a debit repayment whose analysis
\* succeeded while a debit was pending, nothing is thrown, the repayment keeps
\* an empty settlement reference, and the repayment stays among the movements
\* getMovementsNeedingCategoryAnalysis returns, the only movements a later
\* run offers to the matcher.
C25_UnmatchedRepaymentRetried ==
  [][(/\ last'.op = "analyzeMovement"
      /\ ~last'.discarded
      /\ ~last'.threw
      /\ last'.matched = Blank
      /\ findIndex(ledger, last'.id) # 0
      /\ ledger[findIndex(ledger, last'.id)].type = MOVEMENT_TYPES.DEBIT_REPAYMENT
      /\ ledger[findIndex(ledger, last'.id)].settled_movement_id = Blank
      /\ Len(getMovementsPendingDirectSettlement(ledger')) > 0) =>
       /\ ledger'[findIndex(ledger', last'.id)].settled_movement_id = Blank
       /\ \E k \in 1..Len(getMovementsNeedingCategoryAnalysis(ledger')) :
            getMovementsNeedingCategoryAnalysis(ledger')[k].id = last'.id]_vars

\* C27: movements are never deleted.  On every step the ledger is at least
\* as long as before, every row keeps its place and its id, and so every id
\* of the ledger is still an id of the ledger afterwards.
C27_NeverDeleted ==
  [][/\ Len(ledger') >= Len(ledger)
     /\ \A k \in 1..Len(ledger) : ledger'[k].id = ledger[k].id
     /\ Ids(ledger) \subseteq Ids(ledger')]_vars

\* A ledger after a split and a settlement: a row the splitter appended
\* next to the row it came from, and a debit marked settled.
C27_Witness ==
  /\ \E k \in 1..Len(ledger) : ledger[k].ai_comment[1] = "Split from #"
  /\ \E k \in 1..Len(ledger) : ledger[k].status = STATUS.SETTLED
  /\ Len(ledger) = MaxRows

\* The rows of the ledger that carry the Splitwise id n.
RowsOfSplitwiseId(l, n) == {k \in 1..Len(l) : l[k].accounting_system_id = n}

\* C28: processSplitwiseMovements skips every fetched record whose id, as a
\* string, is among the stringified non-empty accounting_system_id cells of
\* the ledger, whether an earlier ingestion or pushToSplitwise wrote the
\* cell; it appends one row for each other record; and whatever the number
\* of runs, no Splitwise id is carried by more than one row.
C28_SplitwiseIdempotent ==
  [][/\ last'.op = "processSplitwiseMovements" =>
          /\ \A n \in last'.skipped :
               /\ toString(n) \in getExistingAccountingSystemIds(ledger)
               /\ RowsOfSplitwiseId(ledger', n) = RowsOfSplitwiseId(ledger, n)
          /\ \A k \in (Len(ledger) + 1)..Len(ledger') :
               toString(ledger'[k].accounting_system_id)
                 \notin getExistingAccountingSystemIds(ledger)
          /\ ~last'.threw
     /\ \A k \in 1..Len(ledger') :
          ledger'[k].accounting_system_id # Blank =>
            Cardinality(RowsOfSplitwiseId(ledger', ledger'[k].accounting_system_id)) = 1]_vars

\* A run of processSplitwiseMovements skipped the expense pushToSplitwise
\* had created from a local movement and added a row for another record.
C28_Witness ==
  /\ last.op = "processSplitwiseMovements"
  /\ \E n \in last.skipped :
       \E k \in 1..Len(ledger) :
         /\ ledger[k].accounting_system_id = n
         /\ ledger[k].source = SOURCES.MONZO
         /\ ledger[k].status = STATUS.IN_SPLITWISE
  /\ last.assigned # <<>>

\* C26: a run of main that is over has executed every stage, whether or not
\* one of its stages threw.
C26_LaterStagesExecuted ==
  (last.op = "main" /\ last.over) => last.stages = STAGES

\* C29: when no ingestion run is under way any more, the ledger holds at
\* most one movement for every (source, source_id), however the runs that
\* fetched the record interleaved.  Stated for the ledgers whose ids are all
\* different, so that a failure is none of the duplicate ids of C30.
C29_OverlapConverges ==
  (/\ run = <<>>
   /\ \A i, j \in 1..Len(ledger) : ledger[i].id = ledger[j].id => i = j) =>
    \A i, j \in 1..Len(ledger) :
      (/\ ledger[i].source = ledger[j].source
       /\ ledger[i].source_id = ledger[j].source_id
       /\ ledger[i].source_id # Empty) => i = j

\* C30: in every state two runs that insert movements can reach, no two rows
\* of the ledger have the same id.
C30_IdsUniqueUnderOverlap ==
  \A i, j \in 1..Len(ledger) : ledger[i].id = ledger[j].id => i = j

\* C31: a successful shared-expense split appends exactly one row, a neutral
\* debit pending direct settlement whose ai_comment names the original id;
\* the ai_comment of the original row names the id of the new row, and
\* original_amount of both rows is the amount the original row had before.
C31_SharedSplitCreatesDebit ==
  [][(last'.op = "splitMovement" /\ last'.ret # Blank /\ ~last'.threw) =>
       LET k == findIndex(ledger, last'.id)
           new == ledger'[Len(ledger')]
       IN /\ k # 0
          /\ Len(ledger') = Len(ledger) + 1
          /\ \A j \in 1..Len(ledger) : j # k => ledger'[j] = ledger[j]
          /\ new.id = last'.ret
          /\ new.id \notin Ids(ledger)
          /\ new.direction = DIRECTIONS.NEUTRAL
          /\ new.type = MOVEMENT_TYPES.DEBIT
          /\ new.status = STATUS.PENDING_DIRECT_SETTLEMENT
          /\ new.ai_comment = <<"Split from #", last'.id>>
          /\ ledger'[k].id = last'.id
          /\ ledger'[k].ai_comment = <<"Split into #", new.id>>
          /\ new.original_amount = ledger[k].amount
          /\ ledger'[k].original_amount = ledger[k].amount]_vars

\* A shared-expense split of a row has succeeded.
C31_Witness ==
  /\ last.op = "splitMovement"
  /\ last.ret # Blank
  /\ findIndex(ledger, last.id) # 0
  /\ findIndex(ledger, last.ret) = Len(ledger)
  /\ ledger[Len(ledger)].type = MOVEMENT_TYPES.DEBIT

\* C32: a successful re-categorization split of an amount A by s, 0 < s < A,
\* leaves the original row with amount A - s and no category and appends
\* exactly one row with amount s and no category; the two amounts are
\* positive and add up to A, the ai_comment of each row names the other, and
\* original_amount of both rows is A.
C32_RecategorizationSplit ==
  [][(/\ last'.op = "splitExpenseForRecategorization"
      /\ last'.ret # Blank
      /\ ~last'.threw) =>
       LET k == findIndex(ledger, last'.id)
           new == ledger'[Len(ledger')]
           A == ledger[k].amount
           s == last'.split_amount
       IN /\ k # 0
          /\ 0 < s /\ s < A
          /\ Len(ledger') = Len(ledger) + 1
          /\ \A j \in 1..Len(ledger) : j # k => ledger'[j] = ledger[j]
          /\ ledger'[k].id = last'.id
          /\ ledger'[k].amount = A - s
          /\ ledger'[k].category = Empty
          /\ new.id = last'.ret
          /\ new.id \notin Ids(ledger)
          /\ new.amount = s
          /\ new.category = Empty
          /\ ledger'[k].amount > 0 /\ new.amount > 0
          /\ ledger'[k].amount + new.amount = A
          /\ ledger'[k].ai_comment = <<"Split into #", new.id>>
          /\ new.ai_comment = <<"Split from #", last'.id>>
          /\ ledger'[k].original_amount = A
          /\ new.original_amount = A]_vars

\* A re-categorization split of a row that an earlier split had already
\* reduced has succeeded.
C32_Witness ==
  /\ last.op = "splitExpenseForRecategorization"
  /\ last.ret # Blank
  /\ findIndex(ledger, last.id) # 0
  /\ ledger[findIndex(ledger, last.id)].amount = 10
  /\ ledger[Len(ledger)].amount = 5

\* The place of a timestamp in the order of a batch: a missing or unparsable
\* timestamp comes before every time.
EarlyKey(ts) == IF IsTime(ts) THEN ts ELSE 0

\* The entries of a batch in an order of ascending timestamps.
Ascending(entries) ==
  \A i, j \in 1..Len(entries) :
    i < j => EarlyKey(entries[i].ts) <= EarlyKey(entries[j].ts)

\* C33: when an insert fails part-way through addMovementsBatch, the rows
\* the ledger had and the rows inserted before the failure stay; the
\* inserted rows are the first entries of the batch in an ascending order of
\* its timestamps, the entry that follows them is the one whose id was
\* taken, and no later entry is inserted.
C33_BatchFailureLeavesPrefix ==
  [][(last'.op = "addMovementsBatch" /\ last'.threw) =>
       LET inserted == Len(ledger') - Len(ledger)
       IN /\ SubSeq(ledger', 1, Len(ledger)) = ledger
          /\ inserted < Len(last'.batch)
          /\ \E sorted \in Orders(last'.batch) :
               /\ Ascending(sorted)
               /\ \A k \in 1..inserted :
                    /\ ledger'[Len(ledger) + k].id = sorted[k].id
                    /\ ledger'[Len(ledger) + k].timestamp = sorted[k].ts
               /\ idExists(ledger', sorted[inserted + 1].id)]_vars

\* C34: one ingestion run inserts at most one movement for a source record,
\* also when the list of the fetch holds the record twice: no two rows the
\* run appends carry the same source with the same source_id and the same
\* accounting_system_id.
C34_RedeliveryAbsorbed ==
  [][last'.op \in {"processMonzoTransactions", "processSplitwiseMovements"} =>
       \A i, j \in (Len(ledger) + 1)..Len(ledger') :
         (/\ ledger'[i].source = ledger'[j].source
          /\ ledger'[i].source_id = ledger'[j].source_id
          /\ ledger'[i].accounting_system_id = ledger'[j].accounting_system_id) =>
           i = j]_vars

\* C35: at the step that changes the status of a debit to settled, the
\* amount the ledger then holds for the repayment that references the debit
\* is at least 95% of the amount it holds for the debit.
C35_SettledByStoredAmount ==
  [][last'.op = "analyzeMovement" =>
       \A d \in 1..Len(ledger) :
         (ledger[d].status # STATUS.SETTLED /\ ledger'[d].status = STATUS.SETTLED) =>
           LET i == findIndex(ledger', last'.id)
           IN /\ i # 0
              /\ ledger'[i].settled_movement_id = ledger'[d].id
              /\ Num(ledger'[d].amount) > 0
              /\ Num(ledger'[i].amount) * 100
                   >= SETTLED_PERCENTAGE * Num(ledger'[d].amount)]_vars

\* C36: when the insert of the new half of a split is rejected, the original
\* row has the amount, category, descriptions, ai_comment, original_amount
\* and currency values it had before the split.
C36_SplitAllOrNothing ==
  [][(last'.op \in SPLITS /\ last'.threw) =>
       LET k == findIndex(ledger', last'.id)
           before == last'.original[1]
       IN /\ k # 0
          /\ ledger'[k].amount = before.amount
          /\ ledger'[k].category = before.category
          /\ ledger'[k].user_description = before.user_description
          /\ ledger'[k].comment = before.comment
          /\ ledger'[k].ai_comment = before.ai_comment
          /\ ledger'[k].original_amount = before.original_amount
          /\ ledger'[k].clp_value = before.clp_value
          /\ ledger'[k].usd_value = before.usd_value
          /\ ledger'[k].gbp_value = before.gbp_value]_vars

\* The ids a row refers to: its settled_movement_id when it has one, and the
\* id its ai_comment names when that is a "Split into #n" or "Split from #n".
ReferencedIds(movement) ==
  (IF movement.settled_movement_id # Blank
   THEN {movement.settled_movement_id} ELSE {})
  \cup
  (IF movement.ai_comment[1] \in {"Split into #", "Split from #"}
   THEN {movement.ai_comment[2]} ELSE {})

\* C37: in sequential runs every id a row refers to, by settled_movement_id
\* or by a split ai_comment, is the id of a row of the ledger.
C37_ReferencesExist ==
  \A i \in 1..Len(ledger) :
    \A n \in ReferencedIds(ledger[i]) : idExists(ledger, n)

\* A ledger with a split pair and a repayment that refers to its debit.
C37_Witness ==
  \E i, j, k \in 1..Len(ledger) :
    /\ ledger[i].ai_comment = SplitInto(ledger[j].id)
    /\ ledger[j].ai_comment = SplitFrom(ledger[i].id)
    /\ ledger[k].settled_movement_id = ledger[j].id

\* The cells on which two ledgers of the same length differ.
ChangedCells(before, after) ==
  {<<k, field>> \in (1..Len(before)) \X DOMAIN Head(before) :
     after[k][field] # before[k][field]}

\* C38: a settlement step changes at most two cells, the settled_movement_id
\* of the repayment and the status of the matched debit; every other field
\* of every row is as before, and the debit gets no settled_movement_id.
C38_SettlementFrame ==
  [][last'.op = "processDebitRepaymentSettlement" =>
       /\ Len(ledger') = Len(ledger)
       /\ Cardinality(ChangedCells(ledger, ledger')) <= 2
       /\ \A cell \in ChangedCells(ledger, ledger') :
            \/ /\ ledger[cell[1]].id = last'.id
               /\ cell[2] = "settled_movement_id"
               /\ ledger'[cell[1]].settled_movement_id = last'.matched
            \/ /\ ledger[cell[1]].id = last'.matched
               /\ cell[2] = "status"
               /\ ledger'[cell[1]].status = STATUS.SETTLED
       /\ (last'.matched = Blank) => ledger' = ledger]_vars

\* A settlement step that wrote both cells.
C38_Witness ==
  /\ last.op = "processDebitRepaymentSettlement"
  /\ last.matched # Blank
  /\ ledger[findIndex(ledger, last.id)].settled_movement_id = last.matched
  /\ ledger[findIndex(ledger, last.matched)].status = STATUS.SETTLED
  /\ ledger[findIndex(ledger, last.matched)].settled_movement_id = Blank

\* The ids of the rows of a list of movements.
IdsOf(movements) == {movements[k].id : k \in 1..Len(movements)}

\* C39: a run of processUncategorizedMovements ends; what it analyses is the
\* list of movements that needed category analysis when it started, each
\* passed to the classifier once, in passes that nothing else interrupts; a
\* row that a split of the run creates is not among the movements the run
\* still analyses.
C39_AnalysisRunTerminates ==
  /\ (~Idle) ~> Idle
  /\ [][(Idle /\ ~Idle') =>
          /\ run' = getMovementsNeedingCategoryAnalysis(ledger)
          /\ \A j, k \in 1..Len(run') : run'[j].id = run'[k].id => j = k]_vars
  /\ [][~Idle =>
          /\ last'.op = "analyzeMovement"
          /\ last'.id = Head(run).id
          /\ run' = Tail(run)
          /\ last'.id \notin IdsOf(run')
          /\ \A k \in (Len(ledger) + 1)..Len(ledger') :
               ledger'[k].id \notin IdsOf(run')]_vars

\* A split of a run has created a row that needs category analysis while
\* the run still has a movement to analyse.
C39_Witness ==
  /\ ~Idle
  /\ last.op = "analyzeMovement"
  /\ last.ret # Blank
  /\ \E k \in 1..Len(ledger) :
       /\ ledger[k].id = last.ret
       /\ ledger[k].user_description # Empty
       /\ ledger[k].category = Empty

\* C40: over sequential runs, pushToSplitwise attempts exactly the movements
\* awaiting their upload; a movement whose expense was created has status In
\* Splitwise and the returned id as accounting_system_id, and a movement in
\* Splitwise stays so with the same id, so no later run attempts it; a
\* movement whose creation failed is unchanged and awaits the next run.
C40_PushedAtMostOnce ==
  /\ [][last'.op = "pushToSplitwise" =>
          /\ Len(ledger') = Len(ledger)
          /\ \A k \in 1..Len(ledger) :
               LET id == ledger[k].id
               IN /\ id \in Range(last'.attempted) =>
                       ledger[k].status = STATUS.PENDING_SPLITWISE_SETTLEMENT
                  /\ id \in last'.converted =>
                       /\ id \in Range(last'.attempted)
                       /\ ledger'[k].status = STATUS.IN_SPLITWISE
                       /\ ledger'[k].accounting_system_id
                            = createExpense(id, last'.converted)
                       /\ ledger'[k].accounting_system_id # Blank
                  /\ id \notin last'.converted =>
                       /\ ledger'[k] = ledger[k]
                       /\ ledger[k].status = STATUS.PENDING_SPLITWISE_SETTLEMENT =>
                            ledger'[k] \in Range(getMovementsPendingSplitwiseSettlement(ledger'))
                  /\ (last'.attempted # <<>>
                        /\ ledger[k].status = STATUS.PENDING_SPLITWISE_SETTLEMENT) =>
                       id \in Range(last'.attempted)]_vars
  /\ [][\A k \in 1..Len(ledger) :
          ledger[k].status = STATUS.IN_SPLITWISE =>
            /\ ledger'[k].status = STATUS.IN_SPLITWISE
            /\ ledger'[k].accounting_system_id = ledger[k].accounting_system_id]_vars

\* A run created the expense of one movement and failed for another, which
\* still awaits its upload.
C40_Witness ==
  /\ last.op = "pushToSplitwise"
  /\ last.successCount = 1
  /\ last.failureCount = 1
  /\ \E i, j \in 1..Len(ledger) :
       /\ ledger[i].id \in last.converted
       /\ ledger[i].status = STATUS.IN_SPLITWISE
       /\ ledger[j].id \in Range(last.attempted) \ last.converted
       /\ ledger[j].status = STATUS.PENDING_SPLITWISE_SETTLEMENT

====
